---- MODULE Spec2Model ----
(***************************************************************************)
(* StratoSAR planner (src/src/App.jsx): the costing model compute /        *)
(* taskingCalc and the form state of App that feeds it.                    *)
(*                                                                         *)
(* JavaScript numbers are modelled as exact rationals extended with        *)
(* +Infinity, -Infinity and NaN, with the IEEE rules for division by       *)
(* zero, 0/0, Infinity*0 and for Math.max / Math.min / comparisons on NaN. *)
(* The rounding error of doubles and the sign of zero are not modelled.    *)
(* Naturals of any size are sequences of base-10000 limbs, least           *)
(* significant first, so that no intermediate value is cut to 32 bits.     *)
(***************************************************************************)
EXTENDS Integers, Sequences, FiniteSets, TLC

(* ---------------------------------------------------------------------- *)
(* Calls. Every function below is entered through Call, which names the    *)
(* function and carries its arguments; the bodies are the ...Body           *)
(* definitions further down.                                               *)
(* ---------------------------------------------------------------------- *)
RECURSIVE Call(_)

BNMul(a, b) == Call(<<"BNMul", a, b>>)
BNDivMod(a, b) == Call(<<"BNDivMod", a, b>>)
BNSqrt(a) == Call(<<"BNSqrt", a>>)
Fin(s, n, d) == Call(<<"Fin", s, n, d>>)
NCmp(x, y) == Call(<<"NCmp", x, y>>)
Max(x, y) == Call(<<"Max", x, y>>)
Min(x, y) == Call(<<"Min", x, y>>)
Add(x, y) == Call(<<"Add", x, y>>)
Mul(x, y) == Call(<<"Mul", x, y>>)
Root(s, n, d) == Call(<<"Root", s, n, d>>)
Div(x, y) == Call(<<"Div", x, y>>)
Whole(x) == Call(<<"Whole", x>>)
Floor(x) == Call(<<"Floor", x>>)
Ceil(x) == Call(<<"Ceil", x>>)
UnsignedDecimal(c) == Call(<<"UnsignedDecimal", c>>)
StringToNumber(c) == Call(<<"StringToNumber", c>>)
ToNumber(v) == Call(<<"ToNumber", v>>)
pdec(v, fb) == Call(<<"pdec", v, fb>>)
strips(type, W, cw, sw, ov) == Call(<<"strips", type, W, cw, sw, ov>>)
Trepos(type, n, r, v, eta) == Call(<<"Trepos", type, n, r, v, eta>>)
PriceAtTargetGM(cost, p, Def) == Call(<<"PriceAtTargetGM", cost, p, Def>>)
compute(p, Def) == Call(<<"compute", p, Def>>)
ProfileLookup(Profiles, profileKey) == Call(<<"ProfileLookup", Profiles, profileKey>>)
taskingCalc(p, m, profileKey, Def, Profiles) == Call(<<"taskingCalc", p, m, profileKey, Def, Profiles>>)
ParseIntChars(c) == Call(<<"ParseIntChars", c>>)
parseInt(v) == Call(<<"parseInt", v>>)
missionsCount(p) == Call(<<"missionsCount", p>>)
LeadingDigit(x) == Call(<<"LeadingDigit", x>>)
Render(h) == Call(<<"Render", h>>)
NumOnChange(raw) == Call(<<"NumOnChange", raw>>)

(* ---------------------------------------------------------------------- *)
(* Unbounded naturals                                                      *)
(* ---------------------------------------------------------------------- *)
Base == 100 * 100

RECURSIVE BNFromInt(_)
BNFromInt(i) == IF i = 0 THEN <<>> ELSE <<i % Base>> \o BNFromInt(i \div Base)

RECURSIVE BNStrip(_)
BNStrip(a) ==
  IF a = <<>> THEN a
  ELSE IF a[Len(a)] = 0 THEN BNStrip(SubSeq(a, 1, Len(a) - 1)) ELSE a

RECURSIVE BNCmpFrom(_, _, _)
BNCmpFrom(a, b, i) ==
  CASE i = 0 -> 0
    [] i > 0 /\ a[i] < b[i] -> -1
    [] i > 0 /\ a[i] > b[i] -> 1
    [] OTHER -> BNCmpFrom(a, b, i - 1)

BNCmp(a, b) ==
  CASE Len(a) < Len(b) -> -1
    [] Len(a) > Len(b) -> 1
    [] OTHER -> BNCmpFrom(a, b, Len(a))

RECURSIVE BNAddC(_, _, _)
BNAddC(a, b, c) ==
  IF a = <<>> /\ b = <<>> THEN (IF c = 0 THEN <<>> ELSE <<c>>)
  ELSE LET x == (IF a = <<>> THEN 0 ELSE a[1]) + (IF b = <<>> THEN 0 ELSE b[1]) + c
       IN  <<x % Base>> \o BNAddC(IF a = <<>> THEN a ELSE Tail(a),
                                  IF b = <<>> THEN b ELSE Tail(b), x \div Base)

BNAdd(a, b) == IF a = <<>> THEN b ELSE IF b = <<>> THEN a ELSE BNAddC(a, b, 0)

RECURSIVE BNSubC(_, _, _)
BNSubC(a, b, c) ==
  IF a = <<>> THEN <<>>
  ELSE LET x == a[1] - (IF b = <<>> THEN 0 ELSE b[1]) - c
       IN  <<IF x < 0 THEN x + Base ELSE x>>
             \o BNSubC(Tail(a), IF b = <<>> THEN b ELSE Tail(b), IF x < 0 THEN 1 ELSE 0)

\* a - b for a >= b
BNSub(a, b) == IF b = <<>> THEN a ELSE BNStrip(BNSubC(a, b, 0))

RECURSIVE BNMulSmallC(_, _, _)
BNMulSmallC(a, k, c) ==
  IF a = <<>> THEN (IF c = 0 THEN <<>> ELSE <<c>>)
  ELSE LET x == a[1] * k + c
       IN  <<x % Base>> \o BNMulSmallC(Tail(a), k, x \div Base)

BNMulSmall(a, k) == IF k = 0 \/ a = <<>> THEN <<>> ELSE IF k = 1 THEN a ELSE BNMulSmallC(a, k, 0)

BNMulBody(a, b) ==
  IF a = <<>> \/ b = <<>> THEN <<>>
  ELSE IF Len(b) = 1 THEN BNMulSmall(a, b[1])
  ELSE IF Len(a) = 1 THEN BNMulSmall(b, a[1])
  ELSE LET rest == BNMul(a, Tail(b))
       IN  BNAdd(BNMulSmall(a, b[1]), IF rest = <<>> THEN rest ELSE <<0>> \o rest)

\* a divided by a small k (0 < k < Base), from limb i downwards with remainder rem
RECURSIVE BNDivSmallFrom(_, _, _, _)
BNDivSmallFrom(a, k, i, rem) ==
  IF i = 0 THEN [q |-> <<>>, r |-> rem]
  ELSE LET cur == rem * Base + a[i]
           lower == BNDivSmallFrom(a, k, i - 1, cur % k)
       IN  IF cur < k THEN [q |-> lower.q \o <<0>>, r |-> lower.r]
           ELSE [q |-> lower.q \o <<cur \div k>>, r |-> lower.r]

BNDivSmall(a, k) ==
  LET d == BNDivSmallFrom(a, k, Len(a), 0)
  IN  [q |-> BNStrip(d.q), r |-> IF d.r = 0 THEN <<>> ELSE <<d.r>>]

\* the quotient limb floor(r / b) for r < b * Base, the top limb of b at least
\* Base / 2: the estimate from the top limbs is at most 2 too large
BNQuotDigit(r, b) ==
  IF BNCmp(r, b) < 0 THEN 0
  ELSE LET L == Len(b)
           rt == IF Len(r) > L THEN r[L + 1] * Base + r[L] ELSE r[L]
           e == rt \div b[L]
           qh == IF e > Base - 1 THEN Base - 1 ELSE e
       IN  IF BNCmp(BNMulSmall(b, qh), r) <= 0 THEN qh
           ELSE IF BNCmp(BNMulSmall(b, qh - 1), r) <= 0 THEN qh - 1
           ELSE qh - 2

\* long division, limb i of a downwards; r is the running remainder
RECURSIVE BNDivFrom(_, _, _, _)
BNDivFrom(a, b, i, r) ==
  IF i = 0 THEN [q |-> <<>>, r |-> r]
  ELSE LET r1 == BNStrip(<<a[i]>> \o r)
           qd == BNQuotDigit(r1, b)
           r2 == IF qd = 0 THEN r1 ELSE BNSub(r1, BNMulSmall(b, qd))
           lower == BNDivFrom(a, b, i - 1, r2)
       IN  IF qd = 0 THEN [q |-> lower.q \o <<0>>, r |-> lower.r]
           ELSE [q |-> lower.q \o <<qd>>, r |-> lower.r]

\* quotient and remainder of a by b > 0 (both scaled by f for the estimate)
BNDivModBody(a, b) ==
  LET f == Base \div (b[Len(b)] + 1)
      d == BNDivFrom(BNMulSmall(a, f), BNMulSmall(b, f), Len(BNMulSmall(a, f)), <<>>)
  IN  CASE BNCmp(a, b) < 0 -> [q |-> <<>>, r |-> a]
        [] Len(b) = 1 -> BNDivSmall(a, b[1])
        [] OTHER -> [q |-> BNStrip(d.q), r |-> BNDivSmall(d.r, f).q]

\* a modulo b, and 0 for b = 0
BNMod(a, b) == IF b = <<>> THEN b ELSE BNDivMod(a, b).r

\* the greatest common divisor (Euclid, six steps at a time)
RECURSIVE BNGcd(_, _)
BNGcd(a, b) ==
  LET r1 == BNMod(a, b)
      r2 == BNMod(b, r1)
      r3 == BNMod(r1, r2)
      r4 == BNMod(r2, r3)
      r5 == BNMod(r3, r4)
      r6 == BNMod(r4, r5)
  IN  CASE b = <<>> -> a
        [] r1 = <<>> -> b
        [] r2 = <<>> -> r1
        [] r3 = <<>> -> r2
        [] r4 = <<>> -> r3
        [] r5 = <<>> -> r4
        [] OTHER -> BNGcd(r5, r6)

\* a step of Newton's iteration for the square root of a
BNSqrtStep(a, x) == BNDivMod(BNAdd(x, BNDivMod(a, x).q), <<2>>).q

\* floor of the square root (Newton's iteration from an upper bound x, three
\* steps at a time)
RECURSIVE BNSqrtFrom(_, _)
BNSqrtFrom(a, x) ==
  LET y1 == BNSqrtStep(a, x)
      y2 == BNSqrtStep(a, y1)
      y3 == BNSqrtStep(a, y2)
  IN  CASE BNCmp(y1, x) >= 0 -> x
        [] BNCmp(y2, y1) >= 0 -> y1
        [] BNCmp(y3, y2) >= 0 -> y2
        [] OTHER -> BNSqrtFrom(a, y3)

\* the upper bound Base^(L/2), times 100 for an odd number L of limbs
BNSqrtBody(a) ==
  IF a = <<>> THEN <<>>
  ELSE BNSqrtFrom(a, [i \in 1..(Len(a) \div 2 + 1) |->
                       IF i <= Len(a) \div 2 THEN 0 ELSE IF Len(a) % 2 = 1 THEN 100 ELSE 1])

BNIsSquare(a) == LET r == BNSqrt(a) IN BNMul(r, r) = a

(* ---------------------------------------------------------------------- *)
(* JavaScript numbers: k = "fin" is s * n / d (s the sign, n and d         *)
(* naturals, d > 0), k = "sqrt" is s * sqrt(n / d) for a ratio that is no  *)
(* square, k = "inf" is s * Infinity, k = "nan" is NaN.                    *)
(* ---------------------------------------------------------------------- *)
NaN == [k |-> "nan", s |-> 0, n |-> <<>>, d |-> <<>>]
Inf(s) == [k |-> "inf", s |-> s, n |-> <<>>, d |-> <<>>]
Zero == [k |-> "fin", s |-> 0, n |-> <<>>, d |-> <<1>>]

\* s * n / d in lowest terms
FinBody(s, n, d) ==
  LET g == BNGcd(n, d)
  IN  CASE n = <<>> \/ s = 0 -> Zero
        [] g = <<1>> -> [k |-> "fin", s |-> s, n |-> n, d |-> d]
        [] OTHER -> [k |-> "fin", s |-> s, n |-> BNDivMod(n, g).q, d |-> BNDivMod(d, g).q]

Sgn(i) == IF i < 0 THEN -1 ELSE IF i = 0 THEN 0 ELSE 1
Abs(i) == IF i < 0 THEN -i ELSE i

\* the literal a / b of two small integers, b > 0, in lowest terms
RECURSIVE Gcd(_, _)
Gcd(a, b) == IF b = 0 THEN a ELSE Gcd(b, a % b)

Rat(a, b) ==
  IF a = 0 THEN Zero
  ELSE [k |-> "fin", s |-> Sgn(a), n |-> BNFromInt(Abs(a) \div Gcd(Abs(a), b)),
        d |-> BNFromInt(b \div Gcd(Abs(a), b))]
Lit(a) == Rat(a, 1)

IsNaN(x) == x.k = "nan"
IsFinite(x) == x.k \in {"fin", "sqrt"}
IsInt(x) == x.k = "fin" /\ x.d = <<1>>

Neg(x) == [x EXCEPT !.s = -x.s]

\* -1, 0, 1 as x < y, x = y, x > y; neither is NaN
NCmpBody(x, y) ==
  IF x.k = "inf" \/ y.k = "inf"
  THEN LET a == IF x.k = "inf" THEN 2 * x.s ELSE 0
           b == IF y.k = "inf" THEN 2 * y.s ELSE 0
       IN  Sgn(a - b)
  ELSE IF x.s # y.s THEN Sgn(x.s - y.s)
  ELSE IF x.s = 0 THEN 0
  ELSE IF x.k = "fin" /\ y.k = "fin"
       THEN x.s * BNCmp(BNMul(x.n, y.d), BNMul(y.n, x.d))
       ELSE \* a square root is involved: compare the squares
            LET xn == IF x.k = "sqrt" THEN x.n ELSE BNMul(x.n, x.n)
                xd == IF x.k = "sqrt" THEN x.d ELSE BNMul(x.d, x.d)
                yn == IF y.k = "sqrt" THEN y.n ELSE BNMul(y.n, y.n)
                yd == IF y.k = "sqrt" THEN y.d ELSE BNMul(y.d, y.d)
            IN  x.s * BNCmp(BNMul(xn, yd), BNMul(yn, xd))

\* the comparison operators: false when an operand is NaN
Lt(x, y) == ~IsNaN(x) /\ ~IsNaN(y) /\ NCmp(x, y) < 0
Le(x, y) == ~IsNaN(x) /\ ~IsNaN(y) /\ NCmp(x, y) <= 0
Gt(x, y) == Lt(y, x)
Ge(x, y) == Le(y, x)
Eq(x, y) == ~IsNaN(x) /\ ~IsNaN(y) /\ NCmp(x, y) = 0

\* Math.max and Math.min of two numbers
MaxBody(x, y) == IF IsNaN(x) \/ IsNaN(y) THEN NaN ELSE IF NCmp(x, y) >= 0 THEN x ELSE y
MinBody(x, y) == IF IsNaN(x) \/ IsNaN(y) THEN NaN ELSE IF NCmp(x, y) <= 0 THEN x ELSE y

AddBody(x, y) ==
  LET a == BNMul(x.n, y.d)
      b == BNMul(y.n, x.d)
      d == BNMul(x.d, y.d)
  IN  CASE IsNaN(x) \/ IsNaN(y) -> NaN
        [] x.k = "inf" -> (IF y.k = "inf" /\ y.s # x.s THEN NaN ELSE x)
        [] y.k = "inf" -> y
        [] x.s = 0 -> y
        [] y.s = 0 -> x
        [] x.s = y.s -> Fin(x.s, BNAdd(a, b), d)
        [] BNCmp(a, b) >= 0 -> Fin(x.s, BNSub(a, b), d)
        [] OTHER -> Fin(y.s, BNSub(b, a), d)

Sub(x, y) == Add(x, IF IsNaN(y) THEN y ELSE Neg(y))

MulBody(x, y) ==
  CASE IsNaN(x) \/ IsNaN(y) -> NaN
    [] x.k = "inf" \/ y.k = "inf" -> (IF x.s = 0 \/ y.s = 0 THEN NaN ELSE Inf(x.s * y.s))
    [] OTHER -> Fin(x.s * y.s, BNMul(x.n, y.n), BNMul(x.d, y.d))

\* s * sqrt(n / d): a "fin" when the ratio is a square
RootBody(s, n, d) ==
  LET g == BNGcd(n, d)
      n1 == BNDivMod(n, g).q
      d1 == BNDivMod(d, g).q
  IN  IF n = <<>> THEN Zero
      ELSE IF BNIsSquare(n1) /\ BNIsSquare(d1) THEN Fin(s, BNSqrt(n1), BNSqrt(d1))
      ELSE [k |-> "sqrt", s |-> s, n |-> n1, d |-> d1]

\* Math.sqrt
Sqrt(x) ==
  IF IsNaN(x) THEN NaN
  ELSE IF x.s < 0 THEN NaN
  ELSE IF x.k = "inf" THEN x
  ELSE Root(1, x.n, x.d)

\* x / y; a zero divisor is +0. A square root is divided by a rational only.
DivBody(x, y) ==
  CASE IsNaN(x) \/ IsNaN(y) -> NaN
    [] x.k = "inf" -> (IF y.k = "inf" THEN NaN ELSE Inf(IF y.s = 0 THEN x.s ELSE x.s * y.s))
    [] y.k = "inf" -> Zero
    [] y.s = 0 -> (IF x.s = 0 THEN NaN ELSE Inf(x.s))
    [] x.k = "sqrt" ->
         Root(x.s * y.s, BNMul(x.n, BNMul(y.d, y.d)), BNMul(x.d, BNMul(y.n, y.n)))
    [] OTHER -> Fin(x.s * y.s, BNMul(x.n, y.d), BNMul(x.d, y.n))

\* the integer part of |x| and whether |x| has a fractional part
WholeBody(x) ==
  IF x.k = "fin"
  THEN LET qr == BNDivMod(x.n, x.d) IN [q |-> qr.q, frac |-> qr.r # <<>>]
  ELSE [q |-> BNSqrt(BNDivMod(x.n, x.d).q), frac |-> TRUE]

\* Math.floor and Math.ceil
FloorBody(x) ==
  IF x.k \in {"nan", "inf"} THEN x
  ELSE LET w == Whole(x)
       IN  IF x.s >= 0 THEN Fin(1, w.q, <<1>>)
           ELSE Fin(-1, IF w.frac THEN BNAdd(w.q, <<1>>) ELSE w.q, <<1>>)

CeilBody(x) ==
  IF x.k \in {"nan", "inf"} THEN x
  ELSE LET w == Whole(x)
       IN  IF x.s > 0 THEN Fin(1, IF w.frac THEN BNAdd(w.q, <<1>>) ELSE w.q, <<1>>)
           ELSE Fin(-1, w.q, <<1>>)


(* ---------------------------------------------------------------------- *)
(* JavaScript values: t is the type; c the characters of a string, x the   *)
(* number of a number (and ToNumber of a boolean).                         *)
(* ---------------------------------------------------------------------- *)
JNum(x) == [t |-> "num", c |-> <<>>, x |-> x]
JStr(c) == [t |-> "str", c |-> c, x |-> NaN]
JBool(b) == [t |-> "bool", c |-> <<>>, x |-> IF b THEN Lit(1) ELSE Zero]
Null == [t |-> "null", c |-> <<>>, x |-> NaN]
Undefined == [t |-> "undef", c |-> <<>>, x |-> NaN]
EmptyStr == JStr(<<>>)

Digits == <<"0", "1", "2", "3", "4", "5", "6", "7", "8", "9">>
IsDigit(ch) == \E i \in 1..10 : Digits[i] = ch
DigitVal(ch) == (CHOOSE i \in 1..10 : Digits[i] = ch) - 1
IsSpace(ch) == ch = " "

\* String.prototype.replace(/,/g, ".")
ReplaceCommas(c) == [i \in 1..Len(c) |-> IF c[i] = "," THEN "." ELSE c[i]]

\* String.prototype.trim
RECURSIVE TrimStart(_)
TrimStart(c) == IF c # <<>> /\ IsSpace(c[1]) THEN TrimStart(Tail(c)) ELSE c
RECURSIVE TrimEnd(_)
TrimEnd(c) == IF c # <<>> /\ IsSpace(c[Len(c)]) THEN TrimEnd(SubSeq(c, 1, Len(c) - 1)) ELSE c
Trim(c) == TrimEnd(TrimStart(c))

\* the digit at place k of the digits c, 0 before their start
DigitAt(c, k) == IF k >= 1 THEN DigitVal(c[k]) ELSE 0

\* the natural written by the digits c, four digits to a limb
DigitsValue(c) ==
  BNStrip([i \in 1..((Len(c) + 3) \div 4) |->
            LET e == Len(c) - 4 * (i - 1)
            IN  DigitAt(c, e) + 10 * DigitAt(c, e - 1) + 100 * DigitAt(c, e - 2)
                  + 1000 * DigitAt(c, e - 3)])

\* 10^k: k \div 4 limbs of 0 below the limb 10^(k % 4)
Pow10(k) == [i \in 1..(k \div 4 + 1) |-> IF i <= k \div 4 THEN 0 ELSE 10 ^ (k % 4)]

\* the decimal literal a / 10^k
Dec(a, k) == Rat(a, 10^k)

\* an unsigned decimal literal: digits, with at most one "." among them
UnsignedDecimalBody(c) ==
  LET dots == {i \in 1..Len(c) : c[i] = "."}
      dot == IF dots = {} THEN Len(c) + 1 ELSE CHOOSE i \in dots : TRUE
      ip == SubSeq(c, 1, dot - 1)
      fp == SubSeq(c, dot + 1, Len(c))
  IN  IF Cardinality(dots) > 1 \/ Len(ip) + Len(fp) = 0
         \/ \E i \in 1..Len(c) : ~IsDigit(c[i]) /\ c[i] # "."
      THEN NaN
      ELSE Fin(1, DigitsValue(ip \o fp), Pow10(Len(fp)))

\* Number(string): StringToNumber (decimal literals and Infinity; no exponent part)
StringToNumberBody(c) ==
  LET s == Trim(c)
      neg == s # <<>> /\ s[1] = "-"
      body == IF s # <<>> /\ s[1] \in {"-", "+"} THEN Tail(s) ELSE s
      mag == IF body = <<"Infinity">> THEN Inf(1) ELSE UnsignedDecimal(body)
  IN  IF s = <<>> THEN Zero
      ELSE IF IsNaN(mag) THEN NaN
      ELSE IF neg THEN Neg(mag) ELSE mag

\* ToNumber: what unary +, the arithmetic operators and Math.* make of a value
ToNumberBody(v) ==
  CASE v.t = "num" -> v.x
    [] v.t = "str" -> StringToNumber(v.c)
    [] v.t = "null" -> Zero
    [] v.t = "undef" -> NaN
    [] v.t = "bool" -> v.x

\* v === "" and v === null
IsEmptyStr(v) == v.t = "str" /\ v.c = <<>>
IsNull(v) == v.t = "null"

\* a value is falsy (the left operand of || is dropped)
Falsy(v) ==
  CASE v.t = "num" -> IsNaN(v.x) \/ (v.x.k = "fin" /\ v.x.s = 0)
    [] v.t = "str" -> v.c = <<>>
    [] v.t = "bool" -> v.x.s = 0
    [] OTHER -> TRUE

\* pdec giving "" and never fb when there is no number
pdec_without_fallback(v, fb) ==
  IF v.t \in {"null", "undef"} THEN EmptyStr
  ELSE IF v.t = "num" THEN (IF IsFinite(v.x) THEN v ELSE EmptyStr)
  ELSE IF v.t = "bool" THEN EmptyStr
  ELSE LET s == Trim(ReplaceCommas(v.c))
       IN  IF s = <<>> THEN EmptyStr
           ELSE LET n == StringToNumber(s)
                IN  IF IsFinite(n) THEN JNum(n) ELSE EmptyStr

\* pdec(v, fb): a number from a form value, fb when there is none.  For a
\* number v, String(v) has no comma and no blank and Number(String(v)) is v.
pdecBody(v, fb) ==
  IF v.t \in {"null", "undef"} THEN fb
  ELSE IF v.t = "num" THEN (IF IsFinite(v.x) THEN v ELSE fb)
  ELSE IF v.t = "bool" THEN fb
  ELSE LET s == Trim(ReplaceCommas(v.c))
       IN  IF s = <<>> THEN fb
           ELSE LET n == StringToNumber(s)
                IN  IF IsFinite(n) THEN JNum(n) ELSE fb


(* ---------------------------------------------------------------------- *)
(* Constants of the module                                                 *)
(* ---------------------------------------------------------------------- *)
\* Math.PI, the double nearest to pi: 884279719003555 / 2^48
PI == [k |-> "fin", s |-> 1, n |-> <<3555, 1900, 2797, 884>>, d |-> <<656, 7671, 4749, 281>>]

ProfileKeys == {"standard", "long", "express"}

\* const PROFILES
PROFILES_LITERAL ==
  [standard |-> [name |-> "Standard", D |-> JNum(Lit(1)), Cf |-> JNum(Lit(1)),
                 Ch |-> JNum(Lit(1)), Cons |-> JNum(Lit(1))],
   long     |-> [name |-> "Long", D |-> JNum(Dec(15, 1)), Cf |-> JNum(Dec(11, 1)),
                 Ch |-> JNum(Lit(1)), Cons |-> JNum(Dec(12, 1))],
   express  |-> [name |-> "Express", D |-> JNum(Dec(7, 1)), Cf |-> JNum(Dec(115, 2)),
                 Ch |-> JNum(Dec(115, 2)), Cons |-> JNum(Lit(1))]]

\* const Def
DEF_LITERAL ==
  [mode |-> "saas",
   platform |-> "stats",
   relay_hours_h |-> JNum(Lit(6)),
   aoiType |-> "areal",
   aoi_km2 |-> JNum(Dec(1818, 1)),
   aoi_width_km |-> Null,
   corridor_width_km |-> JNum(Dec(8, 1)),
   revisit_min |-> JNum(Lit(1440)),
   missions_count |-> JNum(Lit(6)),
   mission_profile |-> "standard",
   proposed_price_per_mission_EUR |-> EmptyStr,
   mission_days |-> JNum(Lit(7)),
   turnaround_days |-> JNum(Lit(1)),
   swath_km |-> JNum(Lit(7)),
   ground_speed_kmh |-> JNum(Lit(40)),
   duty |-> JNum(Dec(75, 2)),
   cov_eff |-> JNum(Dec(5, 1)),
   overlap |-> JNum(Dec(2, 1)),
   turn_radius_km |-> JNum(Lit(5)),
   eta_nav |-> JNum(Dec(8, 1)),
   mtbf_h |-> JNum(Lit(500)),
   mttr_h |-> JNum(Lit(20)),
   max_flight_days |-> JNum(Lit(200)),
   maint_buffer |-> JNum(Dec(25, 2)),
   spare_buffer |-> JNum(Dec(15, 2)),
   Cf_mission |-> JNum(Lit(2500)),
   Ch_hour |-> JNum(Lit(25)),
   capex_platform_EUR |-> JNum(Lit(20000)),
   life_platform_days |-> JNum(Lit(800)),
   capex_payload_EUR |-> JNum(Lit(90000)),
   life_payload_days |-> JNum(Lit(1200)),
   consumables_per_mission |-> JNum(Lit(500)),
   annual_cloud_costs |-> JNum(Lit(12000)),
   target_gm |-> JNum(Dec(5, 1)),
   proposed_annual_price_EUR |-> EmptyStr,
   client_name |-> <<"C", "l", "i", "e", "n", "t">>,
   aoi_name |-> <<"A", "O", "I">>]

(* ---------------------------------------------------------------------- *)
(* Core model                                                              *)
(* ---------------------------------------------------------------------- *)
\* pdec(v, fb) used as a number
pnum(v, fb) == ToNumber(pdec(v, fb))

stripsBody(type, W, cw, sw, ov) ==
  IF type = "corridor"
  THEN Max(Lit(1), Ceil(Div(pnum(cw, JNum(Zero)), Mul(sw, Sub(Lit(1), ov)))))
  ELSE Ceil(Div(ToNumber(W), Mul(sw, Sub(Lit(1), ov))))

TreposBody(type, n, r, v, eta) ==
  IF type = "corridor" /\ Eq(n, Lit(1))
  THEN Mul(Div(Mul(PI, r), Mul(v, eta)), Lit(60))
  ELSE Mul(Div(Mul(Mul(n, PI), r), Mul(v, eta)), Lit(60))

\* the target-margin price without the floor of 0.01 under 1 - margin
PriceAtTargetGM_without_clamp(cost, p, Def) ==
  Div(cost, Sub(Lit(1), pnum(p.target_gm, Def.target_gm)))

\* the target price with the margin itself as the divisor
PriceAtTargetGM_dividing_by_margin(cost, p, Def) ==
  Div(cost, Max(pnum(p.target_gm, Def.target_gm), Dec(1, 2)))

\* the target-margin price cost / Math.max(1 - pdec(p.target_gm, Def.target_gm), 0.01)
PriceAtTargetGMBody(cost, p, Def) ==
  Div(cost, Max(Sub(Lit(1), pnum(p.target_gm, Def.target_gm)), Dec(1, 2)))

\* the revisit interval in hours, taken for the revisits of a year
compute_revisitsY_in_hours(R) == Ceil(Div(R, Lit(60)))

\* const revisitsY = ceil(525600 / R)
compute_revisitsY(R) == Ceil(Div(Lit(525600), R))

\* the fleet size without the relay case
compute_P_without_relay(isRelay, P0, spare) == Ceil(Mul(P0, Add(Lit(1), spare)))

\* const P = isRelay ? 1 : ceil(P0 * (1 + pdec(p.spare_buffer, DEF.spare_buffer)))
compute_P(isRelay, P0, spare) ==
  IF isRelay THEN Lit(1) ELSE Ceil(Mul(P0, Add(Lit(1), spare)))

\* the minimum fleet of a relay, for every platform
compute_Smin_as_relay(isRelay, Tc, R) == Lit(1)

\* const Smin = isRelay ? 1 : ceil(Tc / R)
compute_Smin(isRelay, Tc, R) == IF isRelay THEN Lit(1) ELSE Ceil(Div(Tc, R))

\* the test of a truthy proposed price
compute_proposed_if_truthy(price) == ~Falsy(price)

\* the test p.proposed_annual_price_EUR !== "" && !isNaN(+p.proposed_annual_price_EUR)
compute_proposed(price) == ~IsEmptyStr(price) /\ ~IsNaN(ToNumber(price))

\* the coverage rate without the duty fraction
compute_covRate_without_duty(w, v, d, c) == Mul(Mul(w, v), c)

\* const covRate = w * v * d * c
compute_covRate(w, v, d, c) == Mul(Mul(Mul(w, v), d), c)

\* the chosen annual price without regard to a proposed price
compute_PriceAnnualChosen_always_target(proposed, Puser, PriceGM) == PriceGM

\* const PriceAnnualChosen = proposed ? Puser : PriceGM
compute_PriceAnnualChosen(proposed, Puser, PriceGM) == IF proposed THEN Puser ELSE PriceGM

\* compute(p), reading the module's Def
computeBody(p, Def) ==
  LET isRelay == p.platform = "relay"
      A == Max(Dec(1, 6), pnum(p.aoi_km2, Def.aoi_km2))
      W == IF ~IsNull(p.aoi_width_km) /\ ~IsEmptyStr(p.aoi_width_km)
           THEN pdec(p.aoi_width_km, EmptyStr) ELSE JNum(Sqrt(A))
      relayH == pnum(p.relay_hours_h, Def.relay_hours_h)
      D == IF isRelay THEN Max(Div(relayH, Lit(24)), Div(Lit(1), Lit(24)))
           ELSE pnum(p.mission_days, Def.mission_days)
      Hh == IF isRelay THEN relayH ELSE Mul(D, Lit(24))
      w == pnum(p.swath_km, Def.swath_km)
      v == pnum(p.ground_speed_kmh, Def.ground_speed_kmh)
      d == pnum(p.duty, Def.duty)
      c == pnum(p.cov_eff, Def.cov_eff)
      ov == pnum(p.overlap, Def.overlap)
      r == pnum(p.turn_radius_km, Def.turn_radius_km)
      eta == pnum(p.eta_nav, Def.eta_nav)
      covRate == compute_covRate(w, v, d, c)
      n == strips(p.aoiType, W, p.corridor_width_km, w, ov)
      Ts == Mul(Div(A, Max(covRate, Dec(1, 6))), Lit(60))
      Tr == Trepos(p.aoiType, n, r, v, eta)
      Tc == Add(Ts, Tr)
      R == pnum(p.revisit_min, Def.revisit_min)
      revisitsY == compute_revisitsY(R)
      Kyear == Mul(A, revisitsY)
      Kmis == Mul(covRate, Max(Hh, Dec(1, 6)))
      Fb == Ceil(Div(Kyear, Max(Kmis, Dec(1, 6))))
      Ft == Fb
      mtbf == pnum(p.mtbf_h, Def.mtbf_h)
      Aavail == Min(Dec(999, 3), Max(Dec(5, 1), Div(mtbf, Add(mtbf, pnum(p.mttr_h, Def.mttr_h)))))
      usable == Mul(pnum(p.max_flight_days, Def.max_flight_days),
                    Sub(Lit(1), pnum(p.maint_buffer, Def.maint_buffer)))
      Fpp == IF isRelay THEN Zero
             ELSE Floor(Div(Mul(usable, Aavail),
                            Max(Add(D, pnum(p.turnaround_days, Def.turnaround_days)), Dec(1, 1))))
      Smin == compute_Smin(isRelay, Tc, R)
      P0 == IF isRelay THEN Lit(1) ELSE Max(Ceil(Div(Ft, Max(Fpp, Lit(1)))), Smin)
      P == compute_P(isRelay, P0, pnum(p.spare_buffer, Def.spare_buffer))
      amortPlat == Div(pnum(p.capex_platform_EUR, Def.capex_platform_EUR),
                       Max(pnum(p.life_platform_days, Def.life_platform_days), Lit(1)))
      amortPay == Div(pnum(p.capex_payload_EUR, Def.capex_payload_EUR),
                      Max(pnum(p.life_payload_days, Def.life_payload_days), Lit(1)))
      Cmis == Add(Add(Add(pnum(p.Cf_mission, Def.Cf_mission),
                          Mul(pnum(p.Ch_hour, Def.Ch_hour), Hh)),
                      Mul(Add(amortPlat, amortPay), D)),
                  pnum(p.consumables_per_mission, Def.consumables_per_mission))
      Ann == Add(Mul(Ft, Cmis), pnum(p.annual_cloud_costs, Def.annual_cloud_costs))
      EURkm2_per_revisit == Div(Ann, Max(Kyear, Lit(1)))
      EURkm2_year == Div(Ann, Max(A, Lit(1)))
      PriceGM == PriceAtTargetGM(Ann, p, Def)
      proposed == compute_proposed(p.proposed_annual_price_EUR)
      Puser == Max(ToNumber(p.proposed_annual_price_EUR), Dec(1, 2))
      GM == IF proposed THEN JNum(Div(Sub(Puser, Ann), Puser)) ELSE Null
      PriceAnnualChosen == compute_PriceAnnualChosen(proposed, Puser, PriceGM)
      PricePerKm2_year == Div(PriceAnnualChosen, Max(A, Lit(1)))
      PricePerKm2_per_revisit == Div(PriceAnnualChosen, Max(Kyear, Lit(1)))
      PricePerMission_target == PriceAtTargetGM(Cmis, p, Def)
  IN  [isRelay |-> JBool(isRelay), A |-> JNum(A), W |-> W, D |-> JNum(D), Hh |-> JNum(Hh),
       covRate |-> JNum(covRate), n |-> JNum(n), Ts |-> JNum(Ts), Tr |-> JNum(Tr),
       Tc |-> JNum(Tc), R |-> JNum(R), revisitsY |-> JNum(revisitsY), Kyear |-> JNum(Kyear),
       Kmis |-> JNum(Kmis), Fb |-> JNum(Fb), Ft |-> JNum(Ft), Aavail |-> JNum(Aavail),
       usable |-> JNum(usable), Fpp |-> JNum(Fpp), Smin |-> JNum(Smin), P0 |-> JNum(P0),
       P |-> JNum(P), Cmis |-> JNum(Cmis), Ann |-> JNum(Ann),
       EURkm2_per_revisit |-> JNum(EURkm2_per_revisit), EURkm2_year |-> JNum(EURkm2_year),
       PriceGM |-> JNum(PriceGM), PriceAnnualChosen |-> JNum(PriceAnnualChosen),
       PricePerKm2_year |-> JNum(PricePerKm2_year),
       PricePerKm2_per_revisit |-> JNum(PricePerKm2_per_revisit),
       PricePerMission_target |-> JNum(PricePerMission_target),
       GM |-> GM, slack |-> JNum(Sub(R, Tc))]


(* ---------------------------------------------------------------------- *)
(* Tasking                                                                 *)
(* ---------------------------------------------------------------------- *)
\* keys every object inherits from Object.prototype (a few of them)
InheritedKeys == {"constructor", "toString", "valueOf", "hasOwnProperty"}

\* PROFILES[profileKey] || PROFILES.standard: an own key gives its profile, an
\* inherited key a function object (truthy, without D, Cf, Ch, Cons), any other
\* key undefined and so the standard profile
ProfileLookupBody(Profiles, profileKey) ==
  IF profileKey \in DOMAIN Profiles THEN Profiles[profileKey]
  ELSE IF profileKey \in InheritedKeys
       THEN [name |-> IF profileKey = "constructor" THEN "Object" ELSE profileKey,
             D |-> Undefined, Cf |-> Undefined, Ch |-> Undefined, Cons |-> Undefined]
  ELSE Profiles.standard

JObj(o) == [t |-> "obj", c |-> <<>>, x |-> NaN, o |-> o]

\* the batch cost of one mission more
taskingCalc_tot_one_more(m, Cmis) == Mul(Add(m, Lit(1)), Cmis)

\* const tot = m * Cmis
taskingCalc_tot(m, Cmis) == Mul(m, Cmis)

\* the platform amortization per day from the CAPEX and life of the call
taskingCalc_amortPlat_from_call(p, Def) ==
  Div(pnum(p.capex_platform_EUR, Def.capex_platform_EUR),
      Max(pnum(p.life_platform_days, Def.life_platform_days), Lit(1)))

\* const amortPlat = pdec(DEF.capex_platform_EUR, DEF.capex_platform_EUR)
\*                   / Math.max(pdec(DEF.life_platform_days, DEF.life_platform_days), 1)
taskingCalc_amortPlat(p, Def) ==
  Div(pnum(Def.capex_platform_EUR, Def.capex_platform_EUR),
      Max(pnum(Def.life_platform_days, Def.life_platform_days), Lit(1)))

\* the chosen price per mission without regard to a proposed price
taskingCalc_Pm_final_always_target(userPmValid, userPm, pricePerMissionGM) == pricePerMissionGM

\* const Pm_final = userPmValid ? userPm : pricePerMissionGM
taskingCalc_Pm_final(userPmValid, userPm, pricePerMissionGM) ==
  IF userPmValid THEN userPm ELSE pricePerMissionGM

\* const covRate = pdec(p.swath_km, DEF.swath_km) * pdec(p.ground_speed_kmh, ...)
\*                 * pdec(p.duty, DEF.duty) * pdec(p.cov_eff, DEF.cov_eff)
taskingCalc_covRate(p, Def) ==
  Mul(Mul(Mul(pnum(p.swath_km, Def.swath_km), pnum(p.ground_speed_kmh, Def.ground_speed_kmh)),
          pnum(p.duty, Def.duty)),
      pnum(p.cov_eff, Def.cov_eff))

\* the km2 of a mission held to the area of the AOI
taskingCalc_Kmis_within_aoi(p, H, Def) ==
  Min(Mul(taskingCalc_covRate(p, Def), H), Max(Dec(1, 6), pnum(p.aoi_km2, Def.aoi_km2)))

\* const Kmis = covRate * H
taskingCalc_Kmis(p, H, Def) == Mul(taskingCalc_covRate(p, Def), H)

\* the batch margin taken on the cost, a markup
taskingCalc_GMtot_final_on_cost(Ptot_final, tot) == Div(Sub(Ptot_final, tot), tot)

\* const GMtot_final = (Ptot_final - tot) / Ptot_final
taskingCalc_GMtot_final(Ptot_final, tot) == Div(Sub(Ptot_final, tot), Ptot_final)

\* the hours of a mission taken to be its days
taskingCalc_H_in_days(D) == D

\* const H = D * 24
taskingCalc_H(D) == Mul(D, Lit(24))

\* taskingCalc(p, m, profileKey), reading the module's DEF and PROFILES
taskingCalcBody(p, m, profileKey, Def, Profiles) ==
  LET isRelay == p.platform = "relay"
      pr == ProfileLookup(Profiles, profileKey)
      relayH == pnum(p.relay_hours_h, Def.relay_hours_h)
      Dbase == IF isRelay THEN Max(Div(relayH, Lit(24)), Div(Lit(1), Lit(24)))
               ELSE pnum(p.mission_days, Def.mission_days)
      D == Mul(Dbase, ToNumber(pr.D))
      H == taskingCalc_H(D)
      amortPlat == taskingCalc_amortPlat(p, Def)
      amortPay == Div(pnum(Def.capex_payload_EUR, Def.capex_payload_EUR),
                      Max(pnum(Def.life_payload_days, Def.life_payload_days), Lit(1)))
      Cmis == Add(Add(Add(Mul(pnum(p.Cf_mission, Def.Cf_mission), ToNumber(pr.Cf)),
                          Mul(Mul(pnum(p.Ch_hour, Def.Ch_hour), ToNumber(pr.Ch)), H)),
                      Mul(Add(amortPlat, amortPay), D)),
                  Mul(pnum(p.consumables_per_mission, Def.consumables_per_mission),
                      ToNumber(pr.Cons)))
      tot == taskingCalc_tot(m, Cmis)
      Kmis == taskingCalc_Kmis(p, H, Def)
      gmTarget == pnum(p.target_gm, Def.target_gm)
      pricePerMissionGM == Div(Cmis, Max(Sub(Lit(1), gmTarget), Dec(1, 2)))
      totalPriceGM == Mul(pricePerMissionGM, m)
      userPmValid == ~IsEmptyStr(p.proposed_price_per_mission_EUR)
                     /\ IsFinite(ToNumber(p.proposed_price_per_mission_EUR))
      userPm == Max(ToNumber(p.proposed_price_per_mission_EUR), Dec(1, 2))
      userTotal == Mul(userPm, m)
      GMm_user == Div(Sub(userPm, Cmis), userPm)
      GMtot_user == Div(Sub(userTotal, tot), userTotal)
      Pm_final == taskingCalc_Pm_final(userPmValid, userPm, pricePerMissionGM)
      Ptot_final == Mul(Pm_final, m)
      GMm_final == Div(Sub(Pm_final, Cmis), Pm_final)
      GMtot_final == taskingCalc_GMtot_final(Ptot_final, tot)
      pricePerKm2 == Div(Pm_final, Max(Kmis, Dec(1, 6)))
      costPerKm2 == Div(Cmis, Max(Kmis, Dec(1, 6)))
  IN  [isRelay |-> JBool(isRelay), pr |-> JObj(pr), D |-> JNum(D), H |-> JNum(H),
       Cmis |-> JNum(Cmis), Kmis |-> JNum(Kmis), tot |-> JNum(tot),
       pricePerMissionGM |-> JNum(pricePerMissionGM), totalPriceGM |-> JNum(totalPriceGM),
       userPm |-> IF userPmValid THEN JNum(userPm) ELSE Null,
       userTotal |-> IF userPmValid THEN JNum(userTotal) ELSE Null,
       GMm_user |-> IF userPmValid THEN JNum(GMm_user) ELSE Null,
       GMtot_user |-> IF userPmValid THEN JNum(GMtot_user) ELSE Null,
       Pm_final |-> JNum(Pm_final), Ptot_final |-> JNum(Ptot_final),
       GMm_final |-> JNum(GMm_final), GMtot_final |-> JNum(GMtot_final),
       pricePerKm2 |-> JNum(pricePerKm2), costPerKm2 |-> JNum(costPerKm2),
       hasUserPrice |-> JBool(userPmValid)]

(* ---------------------------------------------------------------------- *)
(* App: the mission count handed to taskingCalc                            *)
(* ---------------------------------------------------------------------- *)
\* the digit before the point in the exponent notation of x > 0
LeadingDigitBody(x) ==
  IF Lt(x, Lit(1)) THEN LeadingDigit(Mul(x, Lit(10)))
  ELSE IF Ge(x, Lit(10)) THEN LeadingDigit(Div(x, Lit(10)))
  ELSE Floor(x)

\* the integer written at the start of the characters c, NaN when there is none
ParseIntCharsBody(c) ==
  LET s == TrimStart(c)
      neg == s # <<>> /\ s[1] = "-"
      body == IF s # <<>> /\ s[1] \in {"-", "+"} THEN Tail(s) ELSE s
      stops == {i \in 1..Len(body) : ~IsDigit(body[i])}
      len == IF stops = {} THEN Len(body)
             ELSE (CHOOSE i \in stops : \A j \in stops : i <= j) - 1
      mag == Fin(1, DigitsValue(SubSeq(body, 1, len)), <<1>>)
  IN  IF len = 0 THEN NaN ELSE IF neg THEN Neg(mag) ELSE mag

\* parseInt(v): of a number, the integer at the start of String(v), which is in
\* decimal notation for 1e-6 <= |v| < 1e21 and in exponent notation outside
parseIntBody(v) ==
  CASE v.t = "str" -> ParseIntChars(v.c)
    [] v.t = "num" ->
         LET x == v.x
             mag == IF x.s < 0 THEN Neg(x) ELSE x
             whole == IF Lt(mag, Dec(1, 6)) \/ Ge(mag, Fin(1, Pow10(21), <<1>>))
                      THEN LeadingDigit(mag) ELSE Floor(mag)
         IN  IF x.k # "fin" THEN NaN
             ELSE IF x.s = 0 THEN Zero
             ELSE IF x.s < 0 THEN Neg(whole) ELSE whole
    [] OTHER -> NaN

\* a || b
OrElse(a, b) == IF Falsy(a) THEN b ELSE a

\* the mission count without the floor at 0
missionsCount_without_floor(p) ==
  ToNumber(OrElse(JNum(parseInt(OrElse(p.missions_count, JNum(Zero)))), JNum(Zero)))

\* Math.max(0, parseInt(p.missions_count || 0) || 0)
missionsCountBody(p) ==
  Max(Zero, ToNumber(OrElse(JNum(parseInt(OrElse(p.missions_count, JNum(Zero)))), JNum(Zero))))



(* ---------------------------------------------------------------------- *)
(* App: the form state p and the results m, t rendered from it             *)
(* ---------------------------------------------------------------------- *)
\* the number of form edits explored
MaxEdits == 2

\* the form's numeric inputs and what is typed into each (the value of the
\* <input>, a string)
Typed == [
  relay_hours_h |-> {<<"0", ".", "5">>},
  aoi_km2 |-> {<<"0">>, <<"-", "5">>, <<>>, <<"5", "0">>},
  aoi_width_km |-> {<<"1", "0">>},
  corridor_width_km |-> {<<"1", ".", "6">>},
  revisit_min |-> {<<"6", "0">>, <<"7", "2", "0">>, <<"0">>, <<>>},
  missions_count |-> {<<"-", "3">>, <<"2", ".", "7">>, <<>>,
                     <<"0", ".", "0", "0", "0", "0", "0", "0", "1">>},
  proposed_price_per_mission_EUR |-> {<<"2", "0", "0", "0", "0">>},
  mission_days |-> {<<"1">>},
  turnaround_days |-> {},
  swath_km |-> {<<"0">>},
  ground_speed_kmh |-> {<<"0">>},
  duty |-> {},
  cov_eff |-> {},
  overlap |-> {},
  turn_radius_km |-> {<<"0">>, <<"-", "1", "0">>},
  eta_nav |-> {},
  mtbf_h |-> {<<"0">>},
  mttr_h |-> {<<"0">>},
  max_flight_days |-> {<<"0">>},
  maint_buffer |-> {},
  spare_buffer |-> {<<"0">>},
  Cf_mission |-> {<<"0">>, <<"-", "9", "0", "0", "0">>},
  Ch_hour |-> {},
  capex_platform_EUR |-> {<<"4", "0", "0", "0", "0">>},
  life_platform_days |-> {},
  capex_payload_EUR |-> {},
  life_payload_days |-> {},
  consumables_per_mission |-> {},
  annual_cloud_costs |-> {},
  target_gm |-> {<<"0", ".", "9", "9", "5">>, <<"0", ".", "3">>},
  proposed_annual_price_EUR |-> {<<"1", "0", "0", "0", "0", "0">>, <<"0">>}]

NumericFields == DOMAIN Typed

\* the condition under which the form shows the input of field k
Visible(k, form) ==
  CASE k = "relay_hours_h" -> form.platform = "relay"
    [] k \in {"mission_days", "turnaround_days", "mtbf_h", "mttr_h", "max_flight_days",
              "maint_buffer", "spare_buffer"} -> form.platform # "relay"
    [] k \in {"revisit_min", "proposed_annual_price_EUR"} -> form.mode = "saas"
    [] k \in {"missions_count", "mission_profile", "proposed_price_per_mission_EUR"} ->
         form.mode # "saas"
    [] k = "aoi_width_km" -> form.aoiType = "areal"
    [] k = "corridor_width_km" -> form.aoiType # "areal"
    [] OTHER -> TRUE

\* compute storing the area it used among the defaults
computeHeapAfter_storing_area(h) ==
  [h EXCEPT !.Def.aoi_km2 = JNum(Max(Dec(1, 6), pnum(h.p.aoi_km2, h.Def.aoi_km2)))]

\* the objects a call can reach, as compute(p) leaves them: every statement of
\* compute declares a local, none assigns to a property of p or DEF
computeHeapAfter(h) == h

\* taskingCalc doubling the duration factor of the standard profile in place
taskingCalcHeapAfter_scaling_profile(h) ==
  [h EXCEPT !.PROFILES.standard.D = JNum(Add(@.x, @.x))]

\* the same for taskingCalc(p, m, profileKey), which also reads PROFILES
taskingCalcHeapAfter(h) == h

\* a render of App from the objects h: m = compute(p), then missionsCount, then
\* t = taskingCalc(p, missionsCount, p.mission_profile); arg is the record the
\* calls were handed, p, Def and PROFILES the objects they leave
RenderBody(h) ==
  [arg |-> h.p,
   m |-> compute(h.p, h.Def),
   missionsCount |-> missionsCount(computeHeapAfter(h).p),
   t |-> taskingCalc(computeHeapAfter(h).p, missionsCount(computeHeapAfter(h).p),
                     computeHeapAfter(h).p.mission_profile, computeHeapAfter(h).Def,
                     computeHeapAfter(h).PROFILES),
   p |-> taskingCalcHeapAfter(computeHeapAfter(h)).p,
   Def |-> taskingCalcHeapAfter(computeHeapAfter(h)).Def,
   PROFILES |-> taskingCalcHeapAfter(computeHeapAfter(h)).PROFILES]

\* <Num on={v => set(k, v)}>: onChange hands pdec(e.target.value, "") to set
NumOnChangeBody(raw) == pdec(JStr(raw), EmptyStr)

(* ---------------------------------------------------------------------- *)
(* localStorage and the quote history                                     *)
(* ---------------------------------------------------------------------- *)
\* the fields of a parameter record that hold a text
TextFields == {"mode", "platform", "aoiType", "mission_profile", "client_name", "aoi_name"}

\* the memo metrics: the costs, prices and margin of the mode of the form
metrics(form, res, tas) ==
  IF form.mode = "saas"
  THEN [cost_km2_per_revisit |-> res.EURkm2_per_revisit, cost_km2_year |-> res.EURkm2_year,
        cost_per_mission |-> res.Cmis, cost_annual |-> res.Ann,
        price_km2_per_revisit |-> res.PricePerKm2_per_revisit,
        price_km2_year |-> res.PricePerKm2_year,
        price_per_mission |-> res.PricePerMission_target,
        price_annual |-> res.PriceAnnualChosen, GM_prop |-> res.GM]
  ELSE [cost_km2_per_revisit |-> Null, cost_km2_year |-> tas.costPerKm2,
        cost_per_mission |-> tas.Cmis, cost_annual |-> tas.tot,
        price_km2_per_revisit |-> Null, price_km2_year |-> tas.pricePerKm2,
        price_per_mission |-> tas.Pm_final, price_annual |-> tas.Ptot_final,
        GM_prop |-> tas.GMtot_final]

\* the entry saveQuote builds at the times id and ts (Date.now(), twice) from
\* the form, the results res and tas and the mission count
QuoteEntry(id, ts, form, res, tas, count) ==
  LET mt == metrics(form, res, tas)
  IN  [id |-> <<"q_", id>>, ts |-> ts,
       client_name |-> IF form.client_name = <<>> THEN <<"C", "l", "i", "e", "n", "t">> ELSE form.client_name,
       aoi_name |-> IF form.aoi_name = <<>> THEN <<"A", "O", "I">> ELSE form.aoi_name,
       mode |-> form.mode, platform |-> form.platform, mission_profile |-> form.mission_profile,
       missions_count |-> JNum(count), aoi_km2 |-> form.aoi_km2,
       revisit_min |-> IF form.mode = "saas" THEN form.revisit_min ELSE EmptyStr,
       cost_km2_per_revisit |-> mt.cost_km2_per_revisit, cost_km2_year |-> mt.cost_km2_year,
       cost_per_mission |-> mt.cost_per_mission, cost_annual |-> mt.cost_annual,
       price_km2_per_revisit |-> mt.price_km2_per_revisit,
       price_km2_year |-> mt.price_km2_year, price_per_mission |-> mt.price_per_mission,
       price_annual |-> mt.price_annual, GM_prop |-> mt.GM_prop,
       inputs |-> form]

\* the list with one entry more in front, cut to 999 entries
saveQuote_next_dropping_one_more(entry, prev) ==
  SubSeq(<<entry>> \o prev, 1, IF Len(prev) + 1 < 999 THEN Len(prev) + 1 ELSE 999)

\* [entry, ...prev].slice(0, 1000)
saveQuote_next(entry, prev) ==
  SubSeq(<<entry>> \o prev, 1, IF Len(prev) + 1 < 1000 THEN Len(prev) + 1 ELSE 1000)

\* prev.filter(q => q.id !== id)
removeQuote_next(prev, id) == SelectSeq(prev, LAMBDA q : q.id # id)

\* JSON.stringify, then JSON.parse: a number that is not finite is written as
\* null; a key holding undefined is left out, and reads as undefined again
JsonValue(v) == IF v.t = "num" /\ ~IsFinite(v.x) THEN Null ELSE v
JsonInputs(r) == [k \in DOMAIN r |-> IF k \in TextFields THEN r[k] ELSE JsonValue(r[k])]
JsonQuote(e) ==
  [k \in DOMAIN e |->
     CASE k \in {"id", "ts"} \cup TextFields -> e[k]
       [] k = "inputs" -> JsonInputs(e.inputs)
       [] OTHER -> JsonValue(e[k])]
JsonQuotes(list) == [i \in 1..Len(list) |-> JsonQuote(list[i])]

\* localStorage: for each key whether an item is stored, and the value whose
\* JSON text the item is
EmptyStorage == [k \in {"quotes", "aoi", "plat"} |-> [present |-> FALSE, value |-> <<>>]]

\* loadJSON(k, fb): JSON.parse of the item of key k, fb when there is none
loadJSON(st, k, fb) == IF st[k].present THEN st[k].value ELSE fb
loadHistory(st) == JsonQuotes(loadJSON(st, "quotes", <<>>))

\* saveJSON(k, v): the item of key k is the JSON text of v
saveJSON(st, k, v) == [st EXCEPT ![k] = [present |-> TRUE, value |-> v]]

(* ---------------------------------------------------------------------- *)
(* Presets of areas and of platforms                                      *)
(* ---------------------------------------------------------------------- *)
DEFAULT_AOI_PRESETS ==
  <<
    [id |-> <<"m", "i", "l", "a", "n", "o">>,
     name |-> <<"M", "i", "l", "a", "n", "o", " ", "(", "p", "r", "o", "v", ".", ")">>,
     aoiType |-> "areal", aoi_km2 |-> JNum(Lit(1576)), aoi_width_km |-> Null,
     corridor_width_km |-> JNum(Dec(8, 1))],
    [id |-> <<"r", "o", "m", "a">>,
     name |-> <<"R", "o", "m", "a", " ", "(", "p", "r", "o", "v", ".", ")">>,
     aoiType |-> "areal", aoi_km2 |-> JNum(Lit(5352)), aoi_width_km |-> Null,
     corridor_width_km |-> JNum(Dec(8, 1))],
    [id |-> <<"t", "o", "r", "i", "n", "o">>,
     name |-> <<"T", "o", "r", "i", "n", "o", " ", "(", "p", "r", "o", "v", ".", ")">>,
     aoiType |-> "areal", aoi_km2 |-> JNum(Lit(6829)), aoi_width_km |-> Null,
     corridor_width_km |-> JNum(Dec(8, 1))],
    [id |-> <<"c", "o", "r", "r", "-", "1", "0", "0", "x", "2">>,
     name |-> <<"C", "o", "r", "r", "i", "d", "o", "i", "o", " ", "1", "0", "0", "×", "2", " ", "k", "m">>,
     aoiType |-> "corridor", aoi_km2 |-> JNum(Lit(200)), aoi_width_km |-> Null,
     corridor_width_km |-> JNum(Lit(2))]
  >>

\* loadPresets(): JSON.parse of the item of the presets, the defaults when
\* there is none
loadPresets(st) == IF st.aoi.present THEN st.aoi.value ELSE DEFAULT_AOI_PRESETS

\* list.findIndex(x => x.id === id), counted from 1; 0 for the -1 of no match
findIndex(list, id) ==
  IF \E i \in 1..Len(list) : list[i].id = id
  THEN CHOOSE i \in 1..Len(list) : list[i].id = id /\ \A j \in 1..(i - 1) : list[j].id # id
  ELSE 0

\* the list with the preset pushed whether or not its id is there
upsertPreset_always_pushing(list, preset) == Append(list, preset)

\* upsertPreset(list, preset): next = [...list]; next[i] = preset at the index
\* of the id, next.push(preset) when there is none; next is saved and returned
upsertPreset(list, preset) ==
  IF findIndex(list, preset.id) >= 1
  THEN [list EXCEPT ![findIndex(list, preset.id)] = preset]
  ELSE Append(list, preset)

\* removePreset(list, id): list.filter(p => p.id !== id), saved and returned
removePreset(list, id) == SelectSeq(list, LAMBDA q : q.id # id)

\* upsertLocal(list, item): the copy list.slice() with item at the index of
\* the id, [...list, item] when there is none
upsertLocal(list, item) ==
  IF findIndex(list, item.id) >= 1
  THEN [list EXCEPT ![findIndex(list, item.id)] = item]
  ELSE list \o <<item>>

\* removeById(list, id): list.filter(x => x.id !== id)
removeById(list, id) == SelectSeq(list, LAMBDA x : x.id # id)

\* the decimal digits of a natural number
RECURSIVE NatChars(_)
NatChars(n) ==
  IF n < 10 THEN <<Digits[n + 1]>> ELSE Append(NatChars(n \div 10), Digits[(n % 10) + 1])

\* slug(s) at the time now: (s || "").toLowerCase(), of the letters A to Z;
\* .replace(/[^a-z0-9]+/g, "-"), each run of characters that are no small
\* letter and no digit becoming one "-"; .replace(/(^-|-$)/g, ""), a "-" at
\* the start and one at the end going; `aoi-${Date.now()}` if nothing is left
slug(s, now) ==
  LET UpperCase == <<"A", "B", "C", "D", "E", "F", "G", "H", "I", "J", "K", "L", "M", "N", "O", "P", "Q", "R", "S", "T", "U", "V", "W", "X", "Y", "Z">>
      LowerCase == <<"a", "b", "c", "d", "e", "f", "g", "h", "i", "j", "k", "l", "m", "n", "o", "p", "q", "r", "s", "t", "u", "v", "w", "x", "y", "z">>
      lower == [i \in 1..Len(s) |->
                  IF \E k \in 1..26 : UpperCase[k] = s[i]
                  THEN LowerCase[CHOOSE k \in 1..26 : UpperCase[k] = s[i]]
                  ELSE s[i]]
      NotAlnum(ch) == ~IsDigit(ch) /\ ~\E k \in 1..26 : LowerCase[k] = ch
      dashed[i \in 0..Len(s)] ==
        IF i = 0 THEN <<>>
        ELSE IF ~NotAlnum(lower[i]) THEN Append(dashed[i - 1], lower[i])
        ELSE IF i > 1 /\ NotAlnum(lower[i - 1]) THEN dashed[i - 1]
        ELSE Append(dashed[i - 1], "-")
      runs == dashed[Len(s)]
      headless == IF runs # <<>> /\ runs[1] = "-" THEN Tail(runs) ELSE runs
      stripped == IF headless # <<>> /\ headless[Len(headless)] = "-"
                  THEN SubSeq(headless, 1, Len(headless) - 1)
                  ELSE headless
  IN  IF stripped # <<>> THEN stripped ELSE <<"a", "o", "i", "-">> \o NatChars(now)

\* a ?? null
OrNull(a) == IF a.t \in {"null", "undef"} THEN Null ELSE a

\* the call c: the name of the function, then its arguments
Call(c) ==
  CASE c[1] = "BNMul" -> BNMulBody(c[2], c[3])
    [] c[1] = "BNDivMod" -> BNDivModBody(c[2], c[3])
    [] c[1] = "BNSqrt" -> BNSqrtBody(c[2])
    [] c[1] = "Fin" -> FinBody(c[2], c[3], c[4])
    [] c[1] = "NCmp" -> NCmpBody(c[2], c[3])
    [] c[1] = "Max" -> MaxBody(c[2], c[3])
    [] c[1] = "Min" -> MinBody(c[2], c[3])
    [] c[1] = "Add" -> AddBody(c[2], c[3])
    [] c[1] = "Mul" -> MulBody(c[2], c[3])
    [] c[1] = "Root" -> RootBody(c[2], c[3], c[4])
    [] c[1] = "Div" -> DivBody(c[2], c[3])
    [] c[1] = "Whole" -> WholeBody(c[2])
    [] c[1] = "Floor" -> FloorBody(c[2])
    [] c[1] = "Ceil" -> CeilBody(c[2])
    [] c[1] = "UnsignedDecimal" -> UnsignedDecimalBody(c[2])
    [] c[1] = "StringToNumber" -> StringToNumberBody(c[2])
    [] c[1] = "ToNumber" -> ToNumberBody(c[2])
    [] c[1] = "pdec" -> pdecBody(c[2], c[3])
    [] c[1] = "strips" -> stripsBody(c[2], c[3], c[4], c[5], c[6])
    [] c[1] = "Trepos" -> TreposBody(c[2], c[3], c[4], c[5], c[6])
    [] c[1] = "PriceAtTargetGM" -> PriceAtTargetGMBody(c[2], c[3], c[4])
    [] c[1] = "compute" -> computeBody(c[2], c[3])
    [] c[1] = "ProfileLookup" -> ProfileLookupBody(c[2], c[3])
    [] c[1] = "taskingCalc" -> taskingCalcBody(c[2], c[3], c[4], c[5], c[6])
    [] c[1] = "ParseIntChars" -> ParseIntCharsBody(c[2])
    [] c[1] = "parseInt" -> parseIntBody(c[2])
    [] c[1] = "missionsCount" -> missionsCountBody(c[2])
    [] c[1] = "LeadingDigit" -> LeadingDigitBody(c[2])
    [] c[1] = "Render" -> RenderBody(c[2])
    [] c[1] = "NumOnChange" -> NumOnChangeBody(c[2])

VARIABLES
  p,         \* useState(DEF): the parameter record of the form
  m,         \* useMemo(() => compute(p), [p])
  t,         \* useMemo(() => taskingCalc(p, missionsCount, p.mission_profile), ...)
  Def,       \* the module's DEF object
  PROFILES,  \* the module's PROFILES object
  edits,     \* how many edits were made
  calls,     \* the renders so far: what each was handed and what it gave
  history,   \* useState(loadHistory()): the saved quotes, newest first
  clock,     \* Date.now()
  storage,   \* localStorage
  done,      \* the last operation on a list: the list it was handed, its
             \* argument, the list it made and the list handed in, afterwards
  presets,           \* useState(loadPresets()): the presets of areas
  selectedPresetId,  \* the id chosen in the list of the presets of areas
  presetName,        \* the name typed for a preset of the area
  platPresets,       \* useState(loadJSON(PLAT_KEY, [])): the platform presets
  platSel,           \* the id chosen in the list of the platform presets
  platName           \* the name typed for a platform preset

vars ==
  <<p, m, t, Def, PROFILES, edits, calls, history, clock, storage, done, presets,
    selectedPresetId, presetName, platPresets, platSel, platName>>

\* the state of the form, and that of the lists kept in localStorage
formVars == <<p, m, t, Def, PROFILES, calls>>
listVars == <<history, clock, storage, done>>
presetVars == <<presets, selectedPresetId, presetName, platPresets, platSel, platName>>

\* the state a render r leaves
Rendered(r) ==
  /\ p' = r.p
  /\ m' = r.m
  /\ t' = r.t
  /\ Def' = r.Def
  /\ PROFILES' = r.PROFILES
  /\ calls' = Append(calls, [arg |-> r.arg, p |-> r.p, m |-> r.m, t |-> r.t,
                             missionsCount |-> r.missionsCount])

\* the first render, of useState(DEF)
Mounted(r) ==
  /\ p = r.p
  /\ m = r.m
  /\ t = r.t
  /\ Def = r.Def
  /\ PROFILES = r.PROFILES
  /\ calls = <<[arg |-> r.arg, p |-> r.p, m |-> r.m, t |-> r.t,
                missionsCount |-> r.missionsCount]>>

\* the time of mounting
FirstClock == 1001

\* no operation on a list yet
NothingDone == [op |-> "mount", list |-> <<>>, arg |-> <<>>, next |-> <<>>, after |-> <<>>]

\* list[0]?.id || ""
FirstId(list) == IF list # <<>> THEN list[1].id ELSE <<>>

\* the lists after mounting with the localStorage st: useState(loadHistory()),
\* and the effect saveHistory(history) of the first render
MountedLists(st) ==
  /\ history = loadHistory(st)
  /\ storage = saveJSON(st, "quotes", loadHistory(st))
  /\ clock = FirstClock
  /\ done = NothingDone
  /\ presets = loadPresets(st)
  /\ selectedPresetId = FirstId(loadPresets(st))
  /\ presetName = <<>>
  /\ platPresets = loadJSON(st, "plat", <<>>)
  /\ platSel = FirstId(loadJSON(st, "plat", <<>>))
  /\ platName = <<>>

Init ==
  /\ edits = 0
  /\ Mounted(Render([p |-> DEF_LITERAL, Def |-> DEF_LITERAL, PROFILES |-> PROFILES_LITERAL]))
  /\ MountedLists(EmptyStorage)

\* set(k, v): setP(prev => ({...prev, [k]: v})), then the render
set(k, v) ==
  /\ edits < MaxEdits
  /\ edits' = edits + 1
  /\ Rendered(Render([p |-> [p EXCEPT ![k] = v], Def |-> Def, PROFILES |-> PROFILES]))
  /\ UNCHANGED <<listVars, presetVars>>

\* typing raw into the input of the numeric field k
SetNumber ==
  \E k \in NumericFields : \E raw \in Typed[k] :
    /\ Visible(k, p)
    /\ set(k, NumOnChange(raw))

\* the radio buttons and the <select> fire onChange on a change of the choice
SetMode ==
  \E v \in {"saas", "tasking"} :
    /\ p.mode # v
    /\ set("mode", v)

SetPlatform ==
  \E v \in {"stats", "relay"} :
    /\ p.platform # v
    /\ set("platform", v)

SetAoiType ==
  \E v \in {"areal", "corridor"} :
    /\ p.aoiType # v
    /\ set("aoiType", v)

\* the <select> of the mission profile: one option per key of PROFILES
SetProfile ==
  \E v \in DOMAIN PROFILES :
    /\ Visible("mission_profile", p)
    /\ p.mission_profile # v
    /\ set("mission_profile", v)

Next == SetNumber \/ SetMode \/ SetPlatform \/ SetAoiType \/ SetProfile

Spec == Init /\ [][Next]_vars

(* ---------------------------------------------------------------------- *)
(* History: the quotes read from localStorage and loaded into the form     *)
(* ---------------------------------------------------------------------- *)
\* the number of quotes loaded one after the other
MaxLoads == 1

\* the text of a decimal written with a comma
WithComma(ip, fp) == ip \o <<",">> \o fp

\* JSON.parse of the stored history: what a stored quote holds for a field of
\* its inputs (JSON has numbers, strings, null and, for a key left out,
\* undefined)
Stored == [
  relay_hours_h |-> {JStr(WithComma(<<"6">>, <<"5">>))},
  aoi_km2 |-> {JStr(WithComma(<<"1", "8", "1">>, <<"8">>)), JNum(Zero), Undefined},
  aoi_width_km |-> {JStr(WithComma(<<"1", "0">>, <<"5">>)), JStr(<<"1", "0">>), JNum(Lit(10)),
                    EmptyStr, JStr(<<"a", "b", "c">>), Undefined},
  corridor_width_km |-> {JStr(WithComma(<<"1">>, <<"6">>)), JNum(Zero), Null, Undefined,
                         JNum(Lit(40))},
  revisit_min |-> {JStr(WithComma(<<"7", "2", "0">>, <<"5">>)), JNum(Lit(60))},
  missions_count |-> {JStr(WithComma(<<"2">>, <<"7">>)), JNum(Lit(3)), JNum(Zero)},
  mission_profile |-> {"long", "express", "premium", "constructor"},
  proposed_price_per_mission_EUR |->
    {JStr(WithComma(<<"2", "0", "0", "0", "0">>, <<"5">>)), JNum(Lit(20000)),
     JStr(<<"2", "0", "0", "0", "0">>), JNum(Zero), Null, JStr(<<"a", "b", "c">>)},
  mission_days |-> {JStr(WithComma(<<"7">>, <<"5">>))},
  turnaround_days |-> {JStr(WithComma(<<"1">>, <<"5">>))},
  swath_km |-> {JStr(WithComma(<<"7">>, <<"5">>)), JNum(Zero)},
  ground_speed_kmh |-> {JStr(WithComma(<<"4", "0">>, <<"5">>)), JNum(Zero)},
  duty |-> {JStr(WithComma(<<"0">>, <<"7", "5">>)), JNum(Zero)},
  cov_eff |-> {JStr(WithComma(<<"0">>, <<"5">>)), JNum(Zero)},
  overlap |-> {JStr(WithComma(<<"0">>, <<"2">>)), JNum(Lit(1))},
  turn_radius_km |-> {JStr(WithComma(<<"5">>, <<"5">>))},
  eta_nav |-> {JStr(WithComma(<<"0">>, <<"8">>)), JNum(Zero)},
  mtbf_h |-> {JStr(WithComma(<<"5", "0", "0">>, <<"5">>))},
  mttr_h |-> {JStr(WithComma(<<"2", "0">>, <<"5">>))},
  max_flight_days |-> {JStr(WithComma(<<"2", "0", "0">>, <<"5">>))},
  maint_buffer |-> {JStr(WithComma(<<"0">>, <<"2", "5">>))},
  spare_buffer |-> {JStr(WithComma(<<"0">>, <<"1", "5">>))},
  Cf_mission |-> {JStr(WithComma(<<"2", "5", "0", "0">>, <<"5">>)), JNum(Zero)},
  Ch_hour |-> {JStr(WithComma(<<"2", "5">>, <<"5">>))},
  capex_platform_EUR |-> {JStr(WithComma(<<"2", "0", "0", "0", "0">>, <<"5">>)), JNum(Lit(40000))},
  life_platform_days |-> {JStr(WithComma(<<"8", "0", "0">>, <<"5">>)), JNum(Lit(400))},
  capex_payload_EUR |-> {JStr(WithComma(<<"9", "0", "0", "0", "0">>, <<"5">>)), JNum(Lit(50000))},
  life_payload_days |-> {JStr(WithComma(<<"1", "2", "0", "0">>, <<"5">>)), JNum(Lit(600))},
  consumables_per_mission |-> {JStr(WithComma(<<"5", "0", "0">>, <<"5">>))},
  annual_cloud_costs |-> {JStr(WithComma(<<"1", "2", "0", "0", "0">>, <<"5">>)), JNum(Zero)},
  target_gm |-> {JStr(WithComma(<<"0">>, <<"3">>)), JNum(Zero), JNum(Lit(1)), JNum(Dec(15, 1)),
                 JNum(Dec(995, 3)), JNum(Neg(Dec(5, 1)))},
  proposed_annual_price_EUR |->
    {JStr(WithComma(<<"1", "0", "0", "0", "0", "0">>, <<"5">>)), JNum(Lit(100000)),
     JStr(<<"1", "0", "0", "0", "0", "0">>), JNum(Zero), Null, JStr(<<"a", "b", "c">>)}]

\* the inputs stored quotes start from: the defaults, a corridor of swath 1,
\* and a relay
StoredBases ==
  {DEF_LITERAL,
   [DEF_LITERAL EXCEPT !.aoiType = "corridor", !.swath_km = JNum(Lit(1)),
                       !.corridor_width_km = JNum(Dec(16, 1))],
   [DEF_LITERAL EXCEPT !.platform = "relay", !.mode = "tasking"]}

\* the inputs of a quote for a corridor of width 0 and swath 0
StoredZeroCorridor ==
  [DEF_LITERAL EXCEPT !.aoiType = "corridor", !.swath_km = JNum(Zero),
                      !.corridor_width_km = JNum(Zero)]

\* entry.inputs of the quotes in the history
StoredInputs ==
  StoredBases \cup {StoredZeroCorridor} \cup
  UNION {{[b EXCEPT ![k] = v] : v \in Stored[k]} : b \in StoredBases, k \in DOMAIN Stored}

\* a quote as JSON.parse gives it: the entry of the defaults with the inputs
\* the stored text holds
StoredQuote(inputs) ==
  [QuoteEntry(1, 1, DEF_LITERAL, m, t, calls[1].missionsCount) EXCEPT !.inputs = inputs]

\* loadQuoteIntoForm(entry) of a quote listed: if (entry?.inputs)
\* setP(entry.inputs), then the render
loadQuoteIntoForm ==
  \E i \in 1..Len(history) :
    /\ edits < MaxLoads
    /\ edits' = edits + 1
    /\ Rendered(Render([p |-> history[i].inputs, Def |-> Def, PROFILES |-> PROFILES]))
    /\ UNCHANGED <<listVars, presetVars>>

HistoryNext == loadQuoteIntoForm

\* mounting with a quote in localStorage
HistoryInit ==
  /\ edits = 0
  /\ Mounted(Render([p |-> DEF_LITERAL, Def |-> DEF_LITERAL, PROFILES |-> PROFILES_LITERAL]))
  /\ \E inputs \in StoredInputs :
       MountedLists(saveJSON(EmptyStorage, "quotes", <<StoredQuote(inputs)>>))

\* the form after mounting, with quotes loaded from the history
HistorySpec == HistoryInit /\ [][HistoryNext]_vars

(* ---------------------------------------------------------------------- *)
(* Quotes: saving, removing and clearing the history                      *)
(* ---------------------------------------------------------------------- *)
\* the number of operations on the history
MaxQuoteOps == 3

\* the history of n quotes of the defaults and their results, saved one a
\* millisecond
SavedQuotes(n) ==
  [i \in 1..n |-> [QuoteEntry(1, 1, DEF_LITERAL, m, t, calls[1].missionsCount)
                     EXCEPT !.id = <<"q_", n - i + 1>>, !.ts = n - i + 1]]

\* the histories found in localStorage on mounting: none, a few quotes, and
\* one and no quote short of the 1000 kept
SavedLengths == {0, 3, 999, 1000}

\* the effect of a change of history: saveHistory(history)
HistorySaved(next) ==
  /\ history' = next
  /\ storage' = saveJSON(storage, "quotes", next)

\* saveQuote: the entry of the form and its results goes in front; Date.now()
\* is read for the id and again for ts, late milliseconds later
saveQuote ==
  \E late \in 0..1 :
    LET entry == QuoteEntry(clock, clock + late, p, m, t, calls[Len(calls)].missionsCount)
    IN  /\ edits < MaxQuoteOps
        /\ edits' = edits + 1
        /\ clock' = clock + late
        /\ HistorySaved(saveQuote_next(entry, history))
        /\ done' = [op |-> "saveQuote", list |-> history, arg |-> entry,
                    next |-> saveQuote_next(entry, history), after |-> history]
        /\ UNCHANGED <<formVars, presetVars>>

\* the quotes whose Delete button is pressed: the first two and the last
DeletePositions == {i \in {1, 2, Len(history)} : i >= 1 /\ i <= Len(history)}

\* removeQuote(q.id) of a quote listed
removeQuote ==
  \E i \in DeletePositions :
    /\ edits < MaxQuoteOps
    /\ edits' = edits + 1
    /\ HistorySaved(removeQuote_next(history, history[i].id))
    /\ done' = [op |-> "removeQuote", list |-> history, arg |-> history[i].id,
                next |-> removeQuote_next(history, history[i].id), after |-> history]
    /\ UNCHANGED <<formVars, clock, presetVars>>

\* clearAllQuotes: if (confirm(...)) setHistory([])
clearAllQuotes ==
  \E confirmed \in BOOLEAN :
    /\ edits < MaxQuoteOps
    /\ edits' = edits + 1
    /\ HistorySaved(IF confirmed THEN <<>> ELSE history)
    /\ done' = [op |-> "clearAllQuotes", list |-> history, arg |-> <<>>,
                next |-> IF confirmed THEN <<>> ELSE history, after |-> history]
    /\ UNCHANGED <<formVars, clock, presetVars>>

QuoteNext == saveQuote \/ removeQuote \/ clearAllQuotes

\* mounting with a saved history in localStorage
QuoteInit ==
  /\ edits = 0
  /\ Mounted(Render([p |-> DEF_LITERAL, Def |-> DEF_LITERAL, PROFILES |-> PROFILES_LITERAL]))
  /\ \E n \in SavedLengths : MountedLists(saveJSON(EmptyStorage, "quotes", SavedQuotes(n)))

QuoteSpec == QuoteInit /\ [][QuoteNext]_vars

(* ---------------------------------------------------------------------- *)
(* Presets: saving and deleting presets of areas and of platforms         *)
(* ---------------------------------------------------------------------- *)
\* the number of operations on the presets
MaxPresetOps == 4

\* the names typed for a preset: none, one whose slug is the id of a default
\* preset, another of the same slug, and one of blanks
PresetNames == {<<>>, <<"R", "o", "m", "a">>, <<"r", "o", "m", "a", "!">>, <<" ", " ">>}

\* one more operation on the presets; the form and the quotes stay
PresetOp ==
  /\ edits < MaxPresetOps
  /\ edits' = edits + 1
  /\ UNCHANGED <<formVars, history>>

\* <input onChange={e => setPresetName(e.target.value)}>
setPresetName ==
  \E name \in PresetNames :
    /\ PresetOp
    /\ presetName' = name
    /\ UNCHANGED <<clock, storage, done, presets, selectedPresetId, platPresets, platSel, platName>>

\* <select onChange={e => setSelectedPresetId(e.target.value)}> of a preset listed
setSelectedPresetId ==
  \E i \in 1..Len(presets) :
    /\ PresetOp
    /\ selectedPresetId' = presets[i].id
    /\ UNCHANGED <<clock, storage, done, presets, presetName, platPresets, platSel, platName>>

\* saveCurrentAsPreset: the preset of the area of the form under the slug of
\* its name is upserted, saved and selected. p.aoi_name is not empty (the
\* texts of the form keep their defaults), so that the name is never
\* `AOI ${Math.round(p.aoi_km2)} km2`. Date.now() is read late milliseconds on
saveCurrentAsPreset ==
  \E late \in 0..1 :
    LET name == Trim(IF presetName # <<>> THEN presetName ELSE p.aoi_name)
        newPreset == [id |-> slug(name, clock + late), name |-> name, aoiType |-> p.aoiType,
                      aoi_km2 |-> OrElse(JNum(ToNumber(p.aoi_km2)), JNum(Zero)),
                      aoi_width_km |-> OrNull(p.aoi_width_km),
                      corridor_width_km |-> OrNull(p.corridor_width_km)]
    IN  /\ PresetOp
        /\ clock' = clock + late
        /\ presets' = upsertPreset(presets, newPreset)
        /\ storage' = saveJSON(storage, "aoi", upsertPreset(presets, newPreset))
        /\ selectedPresetId' = newPreset.id
        /\ presetName' = <<>>
        /\ done' = [op |-> "upsertPreset", list |-> presets, arg |-> newPreset,
                    next |-> upsertPreset(presets, newPreset), after |-> presets]
        /\ UNCHANGED <<platPresets, platSel, platName>>

\* deleteSelectedPreset: if (!selectedPresetId) return; the presets without
\* the one selected, saved; the first of them is selected
deleteSelectedPreset ==
  /\ selectedPresetId # <<>>
  /\ PresetOp
  /\ presets' = removePreset(presets, selectedPresetId)
  /\ storage' = saveJSON(storage, "aoi", removePreset(presets, selectedPresetId))
  /\ selectedPresetId' = FirstId(removePreset(presets, selectedPresetId))
  /\ done' = [op |-> "removePreset", list |-> presets, arg |-> selectedPresetId,
              next |-> removePreset(presets, selectedPresetId), after |-> presets]
  /\ UNCHANGED <<clock, presetName, platPresets, platSel, platName>>

\* <input onChange={e => setPlatName(e.target.value)}>
setPlatName ==
  \E name \in PresetNames :
    /\ PresetOp
    /\ platName' = name
    /\ UNCHANGED <<clock, storage, done, presets, selectedPresetId, presetName, platPresets, platSel>>

\* <select onChange={e => setPlatSel(e.target.value)}> of a preset listed
setPlatSel ==
  \E i \in 1..Len(platPresets) :
    /\ PresetOp
    /\ platSel' = platPresets[i].id
    /\ UNCHANGED <<clock, storage, done, presets, selectedPresetId, presetName, platPresets, platName>>

\* the fields of the form a platform preset holds
PlatformFields ==
  {"platform", "relay_hours_h", "mission_days", "turnaround_days", "mtbf_h", "mttr_h",
   "max_flight_days", "maint_buffer", "spare_buffer", "capex_platform_EUR",
   "life_platform_days", "Cf_mission", "Ch_hour"}

\* savePlatPreset: the platform fields of the form under the slug of the name
\* typed, or of "Stratorelay preset" / "Stratostats preset", are upserted,
\* selected and saved
savePlatPreset ==
  \E late \in 0..1 :
    LET name == Trim(IF platName # <<>> THEN platName
                     ELSE IF p.platform = "relay" THEN <<"S", "t", "r", "a", "t", "o", "r", "e", "l", "a", "y", " ", "p", "r", "e", "s", "e", "t">>
                     ELSE <<"S", "t", "r", "a", "t", "o", "s", "t", "a", "t", "s", " ", "p", "r", "e", "s", "e", "t">>)
        id == slug(name, clock + late)
        item == [k \in {"id", "name"} \cup PlatformFields |->
                   IF k = "id" THEN id ELSE IF k = "name" THEN name ELSE p[k]]
    IN  /\ PresetOp
        /\ clock' = clock + late
        /\ platPresets' = upsertLocal(platPresets, item)
        /\ platSel' = id
        /\ platName' = <<>>
        /\ storage' = saveJSON(storage, "plat", upsertLocal(platPresets, item))
        /\ done' = [op |-> "upsertLocal", list |-> platPresets, arg |-> item,
                    next |-> upsertLocal(platPresets, item), after |-> platPresets]
        /\ UNCHANGED <<presets, selectedPresetId, presetName>>

\* removePlat: if (!platSel) return; the platform presets without the one
\* selected; the first of them is selected, and they are saved
removePlat ==
  /\ platSel # <<>>
  /\ PresetOp
  /\ platPresets' = removeById(platPresets, platSel)
  /\ platSel' = FirstId(removeById(platPresets, platSel))
  /\ storage' = saveJSON(storage, "plat", removeById(platPresets, platSel))
  /\ done' = [op |-> "removeById", list |-> platPresets, arg |-> platSel,
              next |-> removeById(platPresets, platSel), after |-> platPresets]
  /\ UNCHANGED <<clock, presets, selectedPresetId, presetName, platName>>

PresetNext ==
  \/ setPresetName
  \/ setSelectedPresetId
  \/ saveCurrentAsPreset
  \/ deleteSelectedPreset
  \/ setPlatName
  \/ setPlatSel
  \/ savePlatPreset
  \/ removePlat

\* the presets after mounting with no item in localStorage
PresetSpec == Init /\ [][PresetNext]_vars

(* ---------------------------------------------------------------------- *)
(* Properties                                                              *)
(* ---------------------------------------------------------------------- *)
One == JNum(Lit(1))
Positive(x) == x.k = "fin" /\ x.s = 1
NonNegative(x) == x.k = "fin" /\ x.s >= 0
\* a field of the form holds a number of the given sign
FieldPositive(v) == v.t = "num" /\ Positive(v.x)
FieldNonNegative(v) == v.t = "num" /\ NonNegative(v.x)
FieldBelowOne(v) == v.t = "num" /\ v.x.k = "fin" /\ BNCmp(v.x.n, v.x.d) < 0

\* the domains the specification documents for area, revisit interval, spare
\* buffer and maintenance buffer
InDocumentedDomains(form) ==
  /\ FieldPositive(form.aoi_km2)
  /\ FieldPositive(form.revisit_min)
  /\ FieldNonNegative(form.spare_buffer)
  /\ FieldNonNegative(form.maint_buffer) /\ FieldBelowOne(form.maint_buffer)

\* C1: for every parameter record in the documented domains the fleet size P
\* returned by compute satisfies P >= Smin and P >= 1.
C1_FleetFloor ==
  InDocumentedDomains(p) => (Ge(m.P.x, m.Smin.x) /\ Ge(m.P.x, Lit(1)))

\* C2: on the relay platform compute returns P = 1, P0 = 1 and Smin = 1
\* whatever the reliability, buffer, revisit and geometry inputs are, also when
\* the cycle time exceeds the revisit interval.
C2_RelayFleetIsOne ==
  p.platform = "relay" => (m.P = One /\ m.P0 = One /\ m.Smin = One)

\* a relay render whose cycle time exceeds the revisit interval
C2_RelayBeyondRevisit ==
  /\ p.platform = "relay"
  /\ Gt(m.Tc.x, m.R.x)
  /\ m.P = One

\* the target margin a render uses
TargetMargin == pnum(p.target_gm, Def.target_gm)

\* taskingCalc without a proposed price reports the margin g on a positive cost
TaskingRoundTrip(g) ==
  (Positive(t.Cmis.x) /\ t.hasUserPrice = JBool(FALSE)) => t.GMm_final = JNum(g)

\* compute, handed its own PriceGM as the proposed annual price, reports the
\* margin g on a positive annual cost
SubscriptionRoundTrip(g) ==
  Positive(m.Ann.x) =>
    compute([p EXCEPT !.proposed_annual_price_EUR = m.PriceGM], Def).GM = JNum(g)

\* C3 as stated: the margin of the target-margin price is the target margin g
\* for every g in [0, 1) and every cost > 0.
C3_RoundTripBelowOne ==
  (NonNegative(TargetMargin) /\ Lt(TargetMargin, Lit(1))) =>
    (TaskingRoundTrip(TargetMargin) /\ SubscriptionRoundTrip(TargetMargin))

\* C3: for every target margin g in [0, 0.99] and every cost > 0 the margin of
\* the target-margin price is g: taskingCalc without a proposed price reports
\* GMm_final = g, and compute handed a PriceGM of at least 0.01 as the proposed
\* annual price reports GM = g.
C3_RoundTripUpToClamp ==
  (NonNegative(TargetMargin) /\ Le(TargetMargin, Dec(99, 2))) =>
    /\ TaskingRoundTrip(TargetMargin)
    /\ Ge(m.PriceGM.x, Dec(1, 2)) => SubscriptionRoundTrip(TargetMargin)

\* a render with the typed target margin 0.3 and no proposed price
C3_MarginThreeTenths ==
  /\ p.target_gm = JNum(Dec(3, 1))
  /\ Positive(t.Cmis.x) /\ Positive(m.Ann.x)
  /\ t.hasUserPrice = JBool(FALSE)
  /\ t.GMm_final = JNum(Dec(3, 1))

\* the calls made so far and the last of them
Called == 1..Len(calls)
Last == calls[Len(calls)]
\* two parameter records differ in the field k at most
DiffersOnlyIn(a, b, k) == \A f \in DOMAIN a : f # k => a[f] = b[f]

\* calls i and j differ only in revisit_min, with 0 < R of i < R of j
ShorterRevisit(i, j) ==
  /\ DiffersOnlyIn(calls[i].arg, calls[j].arg, "revisit_min")
  /\ Positive(calls[i].m.R.x) /\ Positive(calls[j].m.R.x)
  /\ Lt(calls[i].m.R.x, calls[j].m.R.x)

MoreMissions(i, j) == Ge(calls[i].m.Ft.x, calls[j].m.Ft.x)
HigherAnnualCost(i, j) == Ge(calls[i].m.Ann.x, calls[j].m.Ann.x)

\* C4 as stated: of two records that differ only in revisit_min, 0 < R1 < R2,
\* the one with R1 has missions per year Ft and annual cost Ann at least those
\* of the one with R2.
C4_MonotoneInRevisit ==
  \A i, j \in Called : ShorterRevisit(i, j) => (MoreMissions(i, j) /\ HigherAnnualCost(i, j))

\* C4: of two records that differ only in revisit_min, 0 < R1 < R2, the one
\* with R1 has missions per year Ft at least those of the one with R2, and,
\* when the per-mission cost Cmis is positive and both annual costs are
\* finite, an annual cost Ann at least that of the one with R2.
C4_MonotoneOnPositiveCost ==
  \A i, j \in Called :
    ShorterRevisit(i, j) =>
      /\ MoreMissions(i, j)
      /\ (Positive(calls[i].m.Cmis.x) /\ IsFinite(calls[i].m.Ann.x) /\ IsFinite(calls[j].m.Ann.x))
           => HigherAnnualCost(i, j)

\* two calls that differ only in revisit_min, the shorter one with strictly
\* more missions and a strictly higher annual cost on a positive mission cost
C4_ShorterRevisitCostsMore ==
  \E i, j \in Called :
    /\ ShorterRevisit(i, j)
    /\ Positive(calls[i].m.Cmis.x)
    /\ calls[i].m.Ft # calls[j].m.Ft /\ MoreMissions(i, j)
    /\ calls[i].m.Ann # calls[j].m.Ann /\ HigherAnnualCost(i, j)

\* the profile a call used is one of the catalog
CatalogProfile(c) == \E k \in DOMAIN PROFILES : PROFILES[k] = c.t.pr.o

\* the target-margin price of a cost, as the specification writes it
priceFromCost(cost, g) == Div(cost, Max(Sub(Lit(1), g), Dec(1, 2)))

\* C5: for every mission count m >= 0 and every profile taskingCalc returns
\* tot = m * Cmis and totalPriceGM = m * (Cmis / max(1 - targetMargin, 0.01)),
\* and Cmis does not depend on m.
C5_BatchScaling ==
  /\ \A i \in Called :
       CatalogProfile(calls[i]) =>
         /\ Eq(calls[i].t.tot.x, Mul(calls[i].missionsCount, calls[i].t.Cmis.x))
         /\ Eq(calls[i].t.totalPriceGM.x,
               Mul(calls[i].missionsCount,
                   priceFromCost(calls[i].t.Cmis.x,
                                 pnum(calls[i].arg.target_gm, Def.target_gm))))
  /\ \A i, j \in Called :
       DiffersOnlyIn(calls[i].arg, calls[j].arg, "missions_count") =>
         calls[i].t.Cmis = calls[j].t.Cmis

\* two calls that differ only in the mission count, 6 and 2, the batch costs
\* being positive
C5_TwoBatches ==
  \E i, j \in Called :
    /\ DiffersOnlyIn(calls[i].arg, calls[j].arg, "missions_count")
    /\ calls[i].missionsCount = Lit(6) /\ calls[j].missionsCount = Lit(2)
    /\ Positive(calls[i].t.tot.x) /\ Positive(calls[j].t.tot.x)

FieldNonPositive(v) == v.t = "num" /\ v.x.k = "fin" /\ v.x.s <= 0
FieldNegative(v) == v.t = "num" /\ v.x.k = "fin" /\ v.x.s < 0
\* the numeric fields compute reads with a DEF default
NumericInputs ==
  {"Cf_mission", "Ch_hour", "annual_cloud_costs", "aoi_km2", "capex_payload_EUR",
   "capex_platform_EUR", "consumables_per_mission", "cov_eff", "duty", "eta_nav",
   "ground_speed_kmh", "life_payload_days", "life_platform_days", "maint_buffer",
   "max_flight_days", "mission_days", "mtbf_h", "mttr_h", "overlap", "relay_hours_h",
   "revisit_min", "spare_buffer", "swath_km", "target_gm", "turn_radius_km",
   "turnaround_days"}
\* a failure with InvalidParameter naming a field, in place of a result record
InvalidParameter(r) == \E f \in DOMAIN DEF_LITERAL : r = [error |-> "InvalidParameter", field |-> f]
\* a result record of compute: the fields of the first one, W apart all numbers
\* or, for GM, null
ComputeRecord(r) ==
  /\ DOMAIN r = DOMAIN calls[1].m
  /\ \A f \in DOMAIN r \ {"W", "GM", "isRelay"} : r[f].t = "num"

C8_FailsOnNegativeCount ==
  FieldNegative(p.missions_count) => InvalidParameter(t)

\* C8: a negative mission count does not fail: App hands taskingCalc the count
\* floored at 0, and taskingCalc returns a result record with tot = 0 and
\* totalPriceGM = 0.
C8_NegativeCountIsFlooredAtZero ==
  FieldNegative(p.missions_count) =>
    /\ Last.missionsCount = Zero
    /\ DOMAIN t = DOMAIN calls[1].t
    /\ t.tot = JNum(Zero)
    /\ t.totalPriceGM = JNum(Zero)

\* a render on the typed mission count -3, with a positive mission cost
C8_MinusThreeMissions ==
  /\ p.missions_count = JNum(Lit(-3))
  /\ Positive(t.Cmis.x)
  /\ t.tot = JNum(Zero)

NullOrUndefined(v) == v.t \in {"null", "undef"}
\* the fields of taskingCalc's record that depend on a proposed price
UserFields == {"userPm", "userTotal", "GMm_user", "GMtot_user"}
\* a proposed annual price, and a proposed price per mission, is supplied
AnnualPriceGiven(v) == ~IsEmptyStr(v) /\ ~IsNaN(ToNumber(v))
MissionPriceGiven(v) == ~IsEmptyStr(v) /\ IsFinite(ToNumber(v))

\* C10 as stated: no field of a result record of compute or taskingCalc is
\* null or undefined, whether a proposed price is supplied or not.
C10_FullyPopulated ==
  /\ \A f \in DOMAIN m : ~NullOrUndefined(m[f])
  /\ \A f \in DOMAIN t : ~NullOrUndefined(t[f])

\* C10: no field of a result record is undefined, and none is null but the
\* realized margin GM of compute, null exactly when no proposed annual price
\* is supplied, and userPm, userTotal, GMm_user and GMtot_user of taskingCalc,
\* null exactly when no proposed price per mission is supplied.
C10_PopulatedButProposedPrice ==
  /\ \A f \in DOMAIN m \ {"GM"} : ~NullOrUndefined(m[f])
  /\ \A f \in DOMAIN t \ UserFields : ~NullOrUndefined(t[f])
  /\ m.GM.t # "undef" /\ \A f \in UserFields : t[f].t # "undef"
  /\ m.GM = Null <=> ~AnnualPriceGiven(p.proposed_annual_price_EUR)
  /\ \A f \in UserFields : t[f] = Null <=> ~MissionPriceGiven(p.proposed_price_per_mission_EUR)

\* a render on the proposed annual price 0 and no proposed price per mission
C10_ZeroAnnualPrice ==
  /\ p.proposed_annual_price_EUR = JNum(Zero)
  /\ m.GM.t = "num"
  /\ IsEmptyStr(p.proposed_price_per_mission_EUR)
  /\ t.userPm = Null

\* the annual price compute chose leads to the prices per km2 it returns
PerKm2FromChosen(chosen) ==
  /\ m.PriceAnnualChosen = JNum(chosen)
  /\ m.PricePerKm2_year = JNum(Div(chosen, Max(m.A.x, Lit(1))))
  /\ m.PricePerKm2_per_revisit = JNum(Div(chosen, Max(m.Kyear.x, Lit(1))))

\* C11 as stated: with a proposed annual price the chosen annual price of
\* compute is that price and GM is (price - annualCost) / price; without one
\* the chosen price is annualCost / max(1 - targetMargin, 0.01); the prices
\* per km2 come from the chosen price.
C11_ChosenIsProposed ==
  LET price == ToNumber(p.proposed_annual_price_EUR)
  IN  IF AnnualPriceGiven(p.proposed_annual_price_EUR)
      THEN PerKm2FromChosen(price) /\ m.GM = JNum(Div(Sub(price, m.Ann.x), price))
      ELSE PerKm2FromChosen(priceFromCost(m.Ann.x, TargetMargin)) /\ m.GM = Null

\* C11: with a proposed annual price (not "" and a number under unary +) the
\* chosen annual price of compute is max(price, 0.01) and GM is
\* (chosen - annualCost) / chosen; without one the chosen price is
\* annualCost / max(1 - targetMargin, 0.01); the prices per km2 come from the
\* chosen price.
C11_ChosenIsFlooredProposed ==
  LET price == Max(ToNumber(p.proposed_annual_price_EUR), Dec(1, 2))
  IN  IF AnnualPriceGiven(p.proposed_annual_price_EUR)
      THEN PerKm2FromChosen(price) /\ m.GM = JNum(Div(Sub(price, m.Ann.x), price))
      ELSE PerKm2FromChosen(priceFromCost(m.Ann.x, TargetMargin)) /\ m.GM = Null

\* a quote with the proposed annual price 0, chosen as 0.01
C11_ZeroPriceChosenAsCent ==
  /\ p.proposed_annual_price_EUR = JNum(Zero)
  /\ m.PriceAnnualChosen = JNum(Dec(1, 2))
  /\ m.GM # Null

\* the batch price of taskingCalc is the chosen price per mission times the
\* mission count it was called with
BatchFromChosen(chosen) ==
  /\ t.Pm_final = JNum(chosen)
  /\ t.Ptot_final = JNum(Mul(chosen, Last.missionsCount))

\* C12 as stated: Pm_final of taskingCalc is the proposed price per mission
\* when one is supplied and the target-margin price otherwise, and Ptot_final
\* is Pm_final * missionCount.
C12_ChosenIsProposedPerMission ==
  IF MissionPriceGiven(p.proposed_price_per_mission_EUR)
  THEN BatchFromChosen(ToNumber(p.proposed_price_per_mission_EUR))
  ELSE BatchFromChosen(priceFromCost(t.Cmis.x, TargetMargin))

\* C12: Pm_final of taskingCalc is max(price, 0.01) for a supplied proposed
\* price per mission (not "" and finite under unary +) and the target-margin
\* price Cmis / max(1 - targetMargin, 0.01) otherwise, and Ptot_final is
\* Pm_final * missionCount.
C12_ChosenIsFlooredProposedPerMission ==
  IF MissionPriceGiven(p.proposed_price_per_mission_EUR)
  THEN BatchFromChosen(Max(ToNumber(p.proposed_price_per_mission_EUR), Dec(1, 2)))
  ELSE BatchFromChosen(priceFromCost(t.Cmis.x, TargetMargin))

\* a quote with the proposed price per mission 0, chosen as 0.01, for a batch
\* of six missions
C12_ZeroMissionPriceChosenAsCent ==
  /\ p.proposed_price_per_mission_EUR = JNum(Zero)
  /\ t.Pm_final = JNum(Dec(1, 2))
  /\ t.Ptot_final = JNum(Dec(6, 2))

\* C13: for every profileKey taskingCalc uses the profile of the catalog
\* named by the key when the key is standard, long or express and the
\* standard profile for any other key, and the multipliers D, Cf, Ch, Cons it
\* uses are numbers.
C13_TotalProfileLookup ==
  /\ t.pr.o = IF p.mission_profile \in ProfileKeys THEN PROFILES[p.mission_profile]
              ELSE PROFILES.standard
  /\ \A f \in {"D", "Cf", "Ch", "Cons"} : t.pr.o[f].t = "num"

CapexFields ==
  {"capex_platform_EUR", "life_platform_days", "capex_payload_EUR", "life_payload_days"}

\* the parameter record a differs from b, and in the CAPEX fields only
CapexOverride(a, b) ==
  /\ a # b
  /\ \A f \in DOMAIN a : f \notin CapexFields => a[f] = b[f]

\* C14: a parameter record that differs from another only in
\* capex_platform_EUR, life_platform_days, capex_payload_EUR or
\* life_payload_days gives the same taskingCalc result as the other and a
\* different per-mission cost Cmis of compute.
C14_TaskingIgnoresCapexOverride ==
  \A b \in StoredBases :
    CapexOverride(p, b) =>
      /\ t = taskingCalc(b, missionsCount(b), b.mission_profile, Def, PROFILES)
      /\ m.Cmis # compute(b, Def).Cmis

\* a quote with the platform CAPEX doubled to 40000: the tasking result of the
\* defaults, another per-mission cost of compute
C14_DoubledPlatformCapex ==
  /\ CapexOverride(p, DEF_LITERAL)
  /\ p.capex_platform_EUR = JNum(Lit(40000))
  /\ t = calls[1].t
  /\ m.Cmis # calls[1].m.Cmis

\* the times, counts, costs and prices compute returns
ComputeQuantities ==
  {"n", "Ts", "Tr", "Tc", "revisitsY", "Kyear", "Kmis", "Fb", "Ft", "Fpp", "Smin", "P0", "P",
   "Cmis", "Ann", "EURkm2_per_revisit", "EURkm2_year", "PriceGM", "PriceAnnualChosen",
   "PricePerKm2_year", "PricePerKm2_per_revisit", "PricePerMission_target"}

\* the coverage rate is zero because swath, ground speed, duty fraction or
\* coverage efficiency is zero
ZeroCoverage ==
  /\ \E k \in {"swath_km", "ground_speed_kmh", "duty", "cov_eff"} : p[k] = JNum(Zero)
  /\ m.covRate = JNum(Zero)

\* C15: when the coverage rate is zero because swath, ground speed, duty
\* fraction or coverage efficiency is zero, every time, count, cost and price
\* compute returns is a finite number (neither Infinity nor NaN).
C15_FiniteOnZeroCoverage ==
  ZeroCoverage => \A f \in ComputeQuantities : m[f].t = "num" /\ IsFinite(m[f].x)

\* the value is a number or the text of one
ValidNumber(v) == pdec(v, Null) # Null

\* C16: whenever aoi_width_km is absent, empty or not a valid number compute
\* uses the effective width W = sqrt(area); a provided valid width is used
\* as is.
C16_WidthFallback ==
  m.W = IF ValidNumber(p.aoi_width_km) THEN pdec(p.aoi_width_km, Null)
        ELSE JNum(Sqrt(m.A.x))

\* the field k of the parameter record holds a text with a comma
HasComma(k) == p[k].t = "str" /\ \E i \in 1..Len(p[k].c) : p[k].c[i] = ","

\* the parameter record with the commas of field k written as dots
WithDots(k) == [p EXCEPT ![k] = JStr(ReplaceCommas(p[k].c))]

\* the results for the parameter record q are those for p
SameResults(q) ==
  /\ m = compute(q, Def)
  /\ t = taskingCalc(q, missionsCount(q), q.mission_profile, Def, PROFILES)

\* C17: for every numeric parameter of compute and taskingCalc, the proposed
\* annual price and the proposed price per mission included, the value given
\* as a string with a comma as decimal separator yields the same result
\* records as the value given with a dot.
C17_CommaIsDot ==
  \A k \in NumericFields : HasComma(k) => SameResults(WithDots(k))

\* price is the target-margin price of a cost >= 0 at the margin g: not
\* negative, at least the cost when g >= 0, at most 100 times the cost
ClampedPrice(cost, price, g) ==
  Ge(cost, Zero) =>
    /\ price = priceFromCost(cost, g)
    /\ Ge(price, Zero)
    /\ Ge(g, Zero) => Ge(price, cost)
    /\ Le(price, Mul(Lit(100), cost))

\* C18: for every cost >= 0 and every target margin, margins >= 1 included,
\* compute and taskingCalc return the target price cost / max(1 - margin,
\* 0.01); the price is never negative, is at least the cost when margin >= 0
\* and is at most 100 times the cost.
C18_TargetPriceClamp ==
  /\ ClampedPrice(m.Ann.x, m.PriceGM.x, TargetMargin)
  /\ ClampedPrice(m.Cmis.x, m.PricePerMission_target.x, TargetMargin)
  /\ ClampedPrice(t.Cmis.x, t.pricePerMissionGM.x, TargetMargin)

\* a quote with the target margin 1.5: the prices are 100 times the costs
C18_MarginOneAndAHalf ==
  /\ p.target_gm = JNum(Dec(15, 1))
  /\ Positive(m.Ann.x) /\ m.PriceGM.x = Mul(Lit(100), m.Ann.x)
  /\ Positive(t.Cmis.x) /\ t.pricePerMissionGM.x = Mul(Lit(100), t.Cmis.x)

\* the parameters of the end-to-end subscription scenario are the defaults
DefaultScenario ==
  /\ p.platform = "stats"
  /\ \A k \in {"aoi_km2", "revisit_min", "swath_km", "ground_speed_kmh", "duty", "cov_eff",
                "mission_days"} : p[k] = DEF_LITERAL[k]

\* C19: for the default parameters (area 181.8, revisit 1440, swath 7, speed
\* 40, duty 0.75, coverage efficiency 0.5, platform mode, 7-day missions)
\* compute returns revisitsY = 365, covRate = 105 and Ts = 181.8 / 105 * 60,
\* between 103.85 and 103.95 minutes.
C19_DefaultSubscription ==
  DefaultScenario =>
    /\ m.revisitsY = JNum(Lit(365))
    /\ m.covRate = JNum(Lit(105))
    /\ m.Ts = JNum(Mul(Div(Dec(1818, 1), Lit(105)), Lit(60)))
    /\ Gt(m.Ts.x, Dec(10385, 2)) /\ Lt(m.Ts.x, Dec(10395, 2))

\* the first render, of the defaults
C19_DefaultsRendered ==
  /\ p = DEF_LITERAL
  /\ Len(calls) = 1
  /\ m.revisitsY = JNum(Lit(365))

\* the strip count of a corridor as the specification writes it
CorridorStrips ==
  Max(Lit(1), Ceil(Div(pnum(p.corridor_width_km, JNum(Zero)),
                       Mul(pnum(p.swath_km, Def.swath_km),
                           Sub(Lit(1), pnum(p.overlap, Def.overlap))))))

\* C20: for a corridor the strip count is n = max(1, ceil(corridorWidth /
\* (swath * (1 - overlap)))), n >= 1 for every corridor width, a missing or
\* zero width included, and corridor width 1.6 with swath 1 and overlap 0.2
\* gives n = 2.
C20_CorridorStripCount ==
  p.aoiType = "corridor" =>
    /\ m.n = JNum(CorridorStrips)
    /\ Ge(m.n.x, Lit(1))
    /\ (/\ pnum(p.corridor_width_km, JNum(Zero)) = Dec(16, 1)
        /\ pnum(p.swath_km, Def.swath_km) = Lit(1)
        /\ pnum(p.overlap, Def.overlap) = Dec(2, 1)) => m.n = JNum(Lit(2))

\* the integer part of x: the fraction dropped, toward zero
Truncated(x) == IF x.s < 0 THEN Ceil(x) ELSE Floor(x)

\* C21: the mission count App hands to taskingCalc is a non-negative integer
\* whatever was typed into the missions field: an empty or non-numeric entry
\* gives 0 and a fractional entry is truncated.
C21_CountIsTruncatedEntry ==
  /\ IsInt(Last.missionsCount) /\ Ge(Last.missionsCount, Zero)
  /\ p.missions_count.t # "num" => Last.missionsCount = Zero
  /\ p.missions_count.t = "num" =>
       Last.missionsCount = Max(Zero, Truncated(p.missions_count.x))

\* the ratio mtbf / (mtbf + mttr) of the reliability inputs
AvailabilityRatio ==
  Div(pnum(p.mtbf_h, Def.mtbf_h), Add(pnum(p.mtbf_h, Def.mtbf_h), pnum(p.mttr_h, Def.mttr_h)))

\* C22: for every MTBF and MTTR the availability Aavail of compute lies in
\* [0.5, 0.999] and is mtbf / (mtbf + mttr) whenever that ratio lies in the
\* interval.
C22_AvailabilityClamp ==
  /\ Ge(m.Aavail.x, Dec(5, 1)) /\ Le(m.Aavail.x, Dec(999, 3))
  /\ (Ge(AvailabilityRatio, Dec(5, 1)) /\ Le(AvailabilityRatio, Dec(999, 3)))
       => m.Aavail.x = AvailabilityRatio

\* the relay flight duration a render uses
RelayHours == pnum(p.relay_hours_h, Def.relay_hours_h)

\* the profile taskingCalc used has the duration multiplier 1
UnitDuration == t.pr.o.D = One

\* C23 as stated: for the same parameter record and the standard profile
\* taskingCalc's D and H are compute's D and Hh, in platform mode and in relay
\* mode for every relay flight duration, flights shorter than one hour
\* included.
C23_TaskingHoursAreCoverageHours ==
  UnitDuration => (t.D = m.D /\ t.H = m.Hh)

\* C23: for the same parameter record and the standard profile taskingCalc's
\* D is compute's D and its H is D * 24; H is compute's Hh in platform mode
\* and in relay mode for a relay flight of at least one hour, and for a relay
\* flight shorter than one hour H is 1 while Hh is the flight duration.
C23_TaskingHoursFromDays ==
  UnitDuration =>
    /\ t.D = m.D
    /\ t.H = JNum(Mul(m.D.x, Lit(24)))
    /\ (p.platform # "relay" \/ Ge(RelayHours, Lit(1))) => t.H = m.Hh
    /\ (p.platform = "relay" /\ Lt(RelayHours, Lit(1))) =>
         (t.H = One /\ m.Hh = JNum(RelayHours))

\* a relay flight of half an hour: a day fraction of 1/24 in both models, one
\* hour in taskingCalc and half an hour in compute
C23_HalfHourRelay ==
  /\ p.platform = "relay"
  /\ UnitDuration
  /\ RelayHours = Dec(5, 1)
  /\ t.D = m.D /\ m.D = JNum(Rat(1, 24))
  /\ t.H = One /\ m.Hh = JNum(Dec(5, 1))

\* the price a margin is derived from is at least 0.01 and the margin is a
\* number
FlooredDivisor(price, margin) ==
  /\ price.t = "num" /\ Ge(price.x, Dec(1, 2))
  /\ margin.t = "num" /\ ~IsNaN(margin.x)

\* C24: wherever compute or taskingCalc derives a margin from a price the
\* price is at least 0.01 and no reported margin is a division by zero: for
\* the proposed annual price, the proposed price per mission, the chosen price
\* per mission (GMm_final) and the chosen and proposed batch prices
\* (GMtot_final, GMtot_user), also for a per-mission cost of 0 or a mission
\* count of 0.
C24_MarginDivisorsFloored ==
  /\ m.GM # Null => FlooredDivisor(m.PriceAnnualChosen, m.GM)
  /\ t.hasUserPrice = JBool(TRUE) =>
       (FlooredDivisor(t.userPm, t.GMm_user) /\ FlooredDivisor(t.userTotal, t.GMtot_user))
  /\ FlooredDivisor(t.Pm_final, t.GMm_final)
  /\ FlooredDivisor(t.Ptot_final, t.GMtot_final)

\* the AOI, revisit, geometry, reliability and fleet-buffer fields
AoiRevisitFields ==
  {"aoiType", "aoi_km2", "aoi_width_km", "corridor_width_km", "revisit_min", "overlap",
   "turn_radius_km", "eta_nav", "mtbf_h", "mttr_h", "max_flight_days", "maint_buffer",
   "spare_buffer"}

\* two parameter records differ in fields of the set K at most
DiffersWithin(a, b, K) == \A f \in DOMAIN a : f \notin K => a[f] = b[f]

\* C25: two parameter records that differ only in aoiType, aoi_km2,
\* aoi_width_km, corridor_width_km, revisit_min, overlap, turn radius,
\* navigation efficiency, reliability or fleet-buffer fields give identical
\* taskingCalc results for the same mission count and profile.
C25_TaskingIgnoresAoiAndRevisit ==
  \A i, j \in Called :
    DiffersWithin(calls[i].arg, calls[j].arg, AoiRevisitFields) => calls[i].t = calls[j].t

\* three calls on records that differ in the area and in the revisit
\* interval: one tasking result, three results of compute
C25_AreaAndRevisitEdited ==
  /\ Len(calls) = 3
  /\ calls[1].arg.aoi_km2 # calls[3].arg.aoi_km2
  /\ calls[1].arg.revisit_min # calls[3].arg.revisit_min
  /\ DiffersWithin(calls[1].arg, calls[3].arg, {"aoi_km2", "revisit_min"})
  /\ calls[1].t = calls[2].t /\ calls[2].t = calls[3].t
  /\ calls[1].m # calls[2].m /\ calls[2].m # calls[3].m /\ calls[1].m # calls[3].m

\* the minimum fleet agrees with the slack of a render
SlackAgrees ==
  /\ m.Smin = One <=> Ge(m.slack.x, Zero)
  /\ Ge(m.Smin.x, Lit(2)) <=> Lt(m.slack.x, Zero)
  /\ m.Smin # JNum(Zero)

\* a render in platform mode with a revisit interval > 0
PlatformRevisit == p.platform # "relay" /\ Positive(m.R.x)

\* C26 as stated: in platform mode with revisit > 0 compute returns Smin = 1
\* exactly when slack = R - Tc is >= 0 and Smin >= 2 exactly when slack < 0;
\* Smin is never 0.
C26_SlackAndMinimumFleet ==
  PlatformRevisit => SlackAgrees

\* C26: in platform mode with revisit > 0 and a cycle time Tc > 0 compute
\* returns Smin = 1 exactly when slack = R - Tc is >= 0 and Smin >= 2 exactly
\* when slack < 0; Smin is never 0.
C26_SlackAndMinimumFleetOnPositiveCycle ==
  (PlatformRevisit /\ Gt(m.Tc.x, Zero)) => SlackAgrees

\* an hourly revisit in platform mode: a cycle longer than the interval, a
\* negative slack and a minimum fleet of 4
C26_HourlyRevisit ==
  /\ p.platform # "relay"
  /\ m.R = JNum(Lit(60))
  /\ Gt(m.Tc.x, Lit(60)) /\ Lt(m.slack.x, Zero)
  /\ m.Smin = JNum(Lit(4))

\* C27: for every mission count m >= 1 and every chosen price per mission
\* > 0 the batch margin GMtot_final of taskingCalc is the per-mission margin
\* GMm_final, and GMtot_user is GMm_user when a price is proposed; for m = 0
\* the batch margin is not a number.
C27_BatchMarginIsMissionMargin ==
  /\ (Ge(Last.missionsCount, Lit(1)) /\ Gt(t.Pm_final.x, Zero)) =>
       /\ t.GMtot_final = t.GMm_final
       /\ t.hasUserPrice = JBool(TRUE) => t.GMtot_user = t.GMm_user
  /\ Last.missionsCount = Zero => IsNaN(t.GMtot_final.x)

\* six missions at the proposed price 20000 each: one margin for the mission
\* and the batch, chosen and proposed
C27_SixMissionsAtProposedPrice ==
  /\ Last.missionsCount = Lit(6)
  /\ t.hasUserPrice = JBool(TRUE)
  /\ t.Pm_final = JNum(Lit(20000))
  /\ IsFinite(t.GMm_final.x) /\ Positive(t.GMm_final.x)
  /\ t.GMtot_final = t.GMm_final
  /\ t.GMtot_user = t.GMm_user

\* the revisit intervals a record is compared at
RevisitChoices == {JNum(Lit(60)), JNum(Lit(720))}

\* the minimum fleet, base fleet and fleet of the result a are at least those
\* of b
FleetAtLeast(a, b) ==
  /\ Ge(a.Smin.x, b.Smin.x)
  /\ Ge(a.P0.x, b.P0.x)
  /\ Ge(a.P.x, b.P.x)

\* the result of compute for the record of the form with the revisit interval r
AtRevisit(r) == compute([p EXCEPT !.revisit_min = r], Def)

\* C28: in platform mode, of two parameter records that differ only in
\* revisit_min, 0 < R1 < R2, the one with R1 has Smin, P0 and P each at least
\* those of the one with R2.
C28_FleetMonotoneInRevisit ==
  (p.platform # "relay" /\ Positive(m.R.x)) =>
    \A r \in RevisitChoices :
      /\ Lt(m.R.x, r.x) => FleetAtLeast(m, AtRevisit(r))
      /\ Lt(r.x, m.R.x) => FleetAtLeast(AtRevisit(r), m)

\* the positions of the list whose entry has the id
Removed(list, id) == {i \in 1..Len(list) : list[i].id = id}

\* the position in the list of the j-th entry of another id
KeptAt(list, id, j) ==
  LET gone == Removed(list, id)
  IN  CHOOSE k \in j..(j + Cardinality(gone)) :
        k \notin gone /\ k - Cardinality({r \in gone : r < k}) = j

\* C29: after any saveQuote, removeQuote and clearAllQuotes the history holds
\* at most 1000 entries; saveQuote puts the new entry first, the entries
\* before it follow in their order, and of a full list the last entry is the
\* one dropped; removeQuote leaves out exactly the entries of the id, the
\* others in their order.
C29_HistoryBoundAndOrder ==
  /\ Len(history) <= 1000
  /\ done.op \in {"saveQuote", "removeQuote", "clearAllQuotes"} => history = done.next
  /\ done.op = "saveQuote" =>
        /\ done.next[1] = done.arg
        /\ Len(done.next) = IF Len(done.list) < 1000 THEN Len(done.list) + 1 ELSE 1000
        /\ \A i \in 2..Len(done.next) : done.next[i] = done.list[i - 1]
  /\ done.op = "removeQuote" =>
        /\ Len(done.next) = Len(done.list) - Cardinality(Removed(done.list, done.arg))
        /\ \A j \in 1..Len(done.next) : done.next[j] = done.list[KeptAt(done.list, done.arg, j)]

\* a quote saved onto a history of 1000: it is first, and the oldest is gone
C29_SavedOntoFullHistory ==
  /\ done.op = "saveQuote"
  /\ Len(done.list) = 1000
  /\ Len(history) = 1000
  /\ history[1] = done.arg
  /\ history[1000] = done.list[999]
  /\ \A i \in 1..1000 : history[i] # done.list[1000]

\* no two entries of the list share an id
UniqueIds(list) == \A i, j \in 1..Len(list) : list[i].id = list[j].id => i = j

\* the list before the last operation has an entry of the id
HasId(list, id) == \E i \in 1..Len(list) : list[i].id = id

\* C30: from preset lists of distinct ids, after any upserts and removals no
\* two presets share an id; an upsert of an id in the list puts the entry in
\* the place of the one of that id and keeps the length, an upsert of a new
\* id appends one entry, a removal leaves no entry of the id, and the list
\* handed in is what it was.
C30_PresetIdsStayUnique ==
  /\ UniqueIds(presets)
  /\ UniqueIds(platPresets)
  /\ done.op \in {"upsertPreset", "removePreset"} => presets = done.next
  /\ done.op \in {"upsertLocal", "removeById"} => platPresets = done.next
  /\ done.op \in {"upsertPreset", "upsertLocal"} =>
        /\ done.after = done.list
        /\ IF HasId(done.list, done.arg.id)
           THEN /\ Len(done.next) = Len(done.list)
                /\ \A i \in 1..Len(done.list) :
                     done.next[i] = IF done.list[i].id = done.arg.id THEN done.arg
                                    ELSE done.list[i]
           ELSE done.next = Append(done.list, done.arg)
  /\ done.op \in {"removePreset", "removeById"} =>
        /\ done.after = done.list
        /\ ~HasId(done.next, done.arg)

\* a preset saved under the id of one listed took its place, and a platform
\* preset was saved as well
C30_PresetReplacedInPlace ==
  /\ done.op = "upsertPreset"
  /\ Len(presets) = Len(done.list)
  /\ \E i \in 1..Len(done.list) :
       /\ done.list[i].id = done.arg.id
       /\ done.list[i] # done.arg
       /\ presets[i] = done.arg
  /\ platPresets # <<>>



====
